---------------------------- MODULE Spec2Model ----------------------------
(***************************************************************************)
(* A model of mcp-crypto-news: the hybrid keyword/LLM news classification  *)
(* pipeline (news_analyzer.py), the Redis cache manager (cache_manager.py) *)
(* and the two batch entry points and the single entry point of the        *)
(* server (mcp_news_main.py).                                              *)
(*                                                                         *)
(* Text is a sequence of one-character strings, so that the regular        *)
(* expressions of the analyzer (word-boundary search, raw substring        *)
(* search) are computed on characters, as the code computes them.          *)
(*                                                                         *)
(* A record is written with its fields in the order in which TLC keeps     *)
(* them (the order in which the names first appear in the module), so      *)
(* that no worker of TLC reorders a record another worker is reading.      *)
(***************************************************************************)
EXTENDS Integers, Sequences, FiniteSets, TLC

(***************************************************************************)
(* Characters and strings                                                  *)
(***************************************************************************)

\* The characters that Python's \W matches, among those the model uses.
NonWordChars == {" ", ".", ",", "-", ":", "!", "?"}

\* Sample letters of the Arabic block, [؀-ۿ] (line 64).
ArabicChars == {"ARABIC_BEH", "ARABIC_TEH", "ARABIC_KAF"}

UpperCase ==
    <<"A","B","C","D","E","F","G","H","I","J","K","L","M",
      "N","O","P","Q","R","S","T","U","V","W","X","Y","Z">>

LowerCase ==
    <<"a","b","c","d","e","f","g","h","i","j","k","l","m",
      "n","o","p","q","r","s","t","u","v","w","x","y","z">>

\* \w of a Unicode pattern: letters (Arabic ones too), digits, underscore.
IsWordChar(c) == c \notin NonWordChars

\* str.lower() on one character.
LowerChar(c) ==
    IF \E i \in 1..Len(UpperCase) : UpperCase[i] = c
    THEN LowerCase[CHOOSE i \in 1..Len(UpperCase) : UpperCase[i] = c]
    ELSE c

\* str.lower()
Lower(s) == [i \in 1..Len(s) |-> LowerChar(s[i])]

\* \b between s[p] and s[p+1] (p = 0: the start, p = Len(s): the end).
WordBoundary(s, p) ==
    LET before == p >= 1 /\ IsWordChar(s[p])
        after  == p < Len(s) /\ IsWordChar(s[p + 1])
    IN  before # after

\* pat occurs in s at position i.
OccursAt(s, pat, i) ==
    /\ i >= 1
    /\ i + Len(pat) - 1 <= Len(s)
    /\ SubSeq(s, i, i + Len(pat) - 1) = pat

\* Python's `pat in s` on strings: a raw substring test.
Contains(s, pat) == \E i \in 1..Len(s) : OccursAt(s, pat, i)

\* The places where re.search(r'\bpat\b', s) can match: a whole-word
\* occurrence of pat.
WordMatches(s, pat) ==
    {i \in 1..Len(s) :
        /\ OccursAt(s, pat, i)
        /\ WordBoundary(s, i - 1)
        /\ WordBoundary(s, i + Len(pat) - 1)}

\* The same under re.IGNORECASE.
WordMatchesIgnoreCase(s, pat) == WordMatches(Lower(s), Lower(pat))

\* len(re.findall(r'\b' + re.escape(keyword) + r'\b', text, re.IGNORECASE)).
\* Every keyword begins and ends with a word character, so two matches of
\* one keyword never overlap and findall counts them all.
CountMatches(s, pat) == Cardinality(WordMatchesIgnoreCase(s, pat))


(***************************************************************************)
(* The static tables of CryptoNewsAnalyzer.__init__                        *)
(***************************************************************************)

positive_keywords ==
    <<
    [term |-> <<"s","u","r","g","e">>, weight |-> 10],
    [term |-> <<"s","o","a","r">>, weight |-> 10],
    [term |-> <<"r","a","l","l","y">>, weight |-> 9],
    [term |-> <<"p","u","m","p">>, weight |-> 8],
    [term |-> <<"m","o","o","n">>, weight |-> 8],
    [term |-> <<"b","u","l","l","i","s","h">>, weight |-> 9],
    [term |-> <<"p","o","s","i","t","i","v","e">>, weight |-> 7],
    [term |-> <<"g","a","i","n">>, weight |-> 8],
    [term |-> <<"u","p">>, weight |-> 6],
    [term |-> <<"r","i","s","e">>, weight |-> 7],
    [term |-> <<"b","r","e","a","k","o","u","t">>, weight |-> 9],
    [term |-> <<"a","d","o","p","t","i","o","n">>, weight |-> 8],
    [term |-> <<"a","p","p","r","o","v","a","l">>, weight |-> 10],
    [term |-> <<"p","a","r","t","n","e","r","s","h","i","p">>, weight |-> 8],
    [term |-> <<"u","p","g","r","a","d","e">>, weight |-> 7],
    [term |-> <<"m","i","l","e","s","t","o","n","e">>, weight |-> 8],
    [term |-> <<"b","r","e","a","k","t","h","r","o","u","g","h">>, weight |-> 9],
    [term |-> <<"s","u","c","c","e","s","s">>, weight |-> 8],
    [term |-> <<"l","a","u","n","c","h">>, weight |-> 7],
    [term |-> <<"i","n","t","e","g","r","a","t","i","o","n">>, weight |-> 7],
    [term |-> <<"b","u","y">>, weight |-> 6],
    [term |-> <<"i","n","v","e","s","t">>, weight |-> 7],
    [term |-> <<"g","r","e","e","n">>, weight |-> 5],
    [term |-> <<"p","r","o","f","i","t">>, weight |-> 8],
    [term |-> <<"a","t","h">>, weight |-> 9],
    [term |-> <<"n","e","w"," ","h","i","g","h">>, weight |-> 9]
    >>

negative_keywords ==
    <<
    [term |-> <<"c","r","a","s","h">>, weight |-> 10],
    [term |-> <<"d","u","m","p">>, weight |-> 9],
    [term |-> <<"d","r","o","p">>, weight |-> 8],
    [term |-> <<"f","a","l","l">>, weight |-> 7],
    [term |-> <<"d","e","c","l","i","n","e">>, weight |-> 7],
    [term |-> <<"b","e","a","r","i","s","h">>, weight |-> 9],
    [term |-> <<"n","e","g","a","t","i","v","e">>, weight |-> 7],
    [term |-> <<"l","o","s","s">>, weight |-> 8],
    [term |-> <<"d","o","w","n">>, weight |-> 6],
    [term |-> <<"p","l","u","n","g","e">>, weight |-> 9],
    [term |-> <<"c","o","l","l","a","p","s","e">>, weight |-> 10],
    [term |-> <<"h","a","c","k">>, weight |-> 10],
    [term |-> <<"s","c","a","m">>, weight |-> 10],
    [term |-> <<"f","r","a","u","d">>, weight |-> 10],
    [term |-> <<"b","a","n">>, weight |-> 9],
    [term |-> <<"r","e","g","u","l","a","t","i","o","n">>, weight |-> 6],
    [term |-> <<"c","r","a","c","k","d","o","w","n">>, weight |-> 8],
    [term |-> <<"l","i","q","u","i","d","a","t","i","o","n">>, weight |-> 8],
    [term |-> <<"s","e","l","l">>, weight |-> 6],
    [term |-> <<"r","e","d">>, weight |-> 5],
    [term |-> <<"c","o","r","r","e","c","t","i","o","n">>, weight |-> 7],
    [term |-> <<"d","i","p">>, weight |-> 5],
    [term |-> <<"p","a","n","i","c">>, weight |-> 8],
    [term |-> <<"f","e","a","r">>, weight |-> 7]
    >>

\* Each pattern r'\ba\b|\bb\b' as its two aliases, with its symbol.
crypto_patterns ==
    <<
    [aliases |-> {<<"b","t","c">>, <<"b","i","t","c","o","i","n">>}, coin |-> "BTC"],
    [aliases |-> {<<"e","t","h">>, <<"e","t","h","e","r","e","u","m">>}, coin |-> "ETH"],
    [aliases |-> {<<"b","n","b">>, <<"b","i","n","a","n","c","e">>}, coin |-> "BNB"],
    [aliases |-> {<<"a","d","a">>, <<"c","a","r","d","a","n","o">>}, coin |-> "ADA"],
    [aliases |-> {<<"s","o","l">>, <<"s","o","l","a","n","a">>}, coin |-> "SOL"],
    [aliases |-> {<<"x","r","p">>, <<"r","i","p","p","l","e">>}, coin |-> "XRP"],
    [aliases |-> {<<"d","o","t">>, <<"p","o","l","k","a","d","o","t">>}, coin |-> "DOT"],
    [aliases |-> {<<"a","v","a","x">>, <<"a","v","a","l","a","n","c","h","e">>}, coin |-> "AVAX"],
    [aliases |-> {<<"m","a","t","i","c">>, <<"p","o","l","y","g","o","n">>}, coin |-> "MATIC"],
    [aliases |-> {<<"l","i","n","k">>, <<"c","h","a","i","n","l","i","n","k">>}, coin |-> "LINK"]
    >>

high_impact_keywords ==
    {<<"r","e","g","u","l","a","t","i","o","n">>,
     <<"b","a","n">>,
     <<"a","p","p","r","o","v","a","l">>,
     <<"e","t","f">>,
     <<"s","e","c">>,
     <<"h","a","c","k">>}

(***************************************************************************)
(* JSON values of a request: a title or summary is a string, or something  *)
(* else (null, a number) when the caller sent it so.                       *)
(***************************************************************************)

Str(chars) == [chars |-> chars, type |-> "string"]

JsonNull == [chars |-> <<>>, type |-> "null"]

IsStr(v) == v.type = "string"

\* Python's truth value of a JSON value: None and '' are falsy.
Truthy(v) == IsStr(v) /\ Len(v.chars) > 0

(***************************************************************************)
(* response_models.py                                                      *)
(***************************************************************************)

ImpactType == {"Positive", "Negative", "Neutral"}

\* validate_coins: uppercase, drop empty names, remove duplicates.  Coin
\* names are kept as symbols; the symbols of crypto_patterns are uppercase
\* already, so upper() leaves them as they are.
validate_coins(v) == {coin \in v : coin # ""}

\* The field constraints of NewsAnalysisResponse: impact an ImpactType,
\* confidence an integer with ge=0, le=100.
FieldsValid(impact, confidence) ==
    /\ impact \in ImpactType
    /\ confidence \in 0..100

\* NewsAnalysisResponse(...): the model object (validation passed).
NewsAnalysisResponse(impact, confidence, affected_coins, summary, lang, low_confidence, error) ==
    [impact         |-> impact,
     confidence     |-> confidence,
     affected_coins |-> validate_coins(affected_coins),
     summary        |-> summary,
     lang           |-> lang,
     low_confidence |-> low_confidence,
     error          |-> error]

\* The absent value (None) of an optional verdict or of the error field.
None == [none |-> TRUE]

(***************************************************************************)
(* news_analyzer.py: the pure stages                                       *)
(***************************************************************************)

RECURSIVE Score(_, _, _)
\* The loops of lines 172-174 and 177-179: the sum over the first n
\* keywords of matches * weight.
Score(keywords, text, n) ==
    IF n = 0 THEN 0
    ELSE Score(keywords, text, n - 1)
         + CountMatches(text, keywords[n].term) * keywords[n].weight

\* A decision that differs from lines 181-192 in one comparison (a tie of
\* the totals counts as Positive); C7 must tell the two apart.
ImpactAndConfidenceStrict(positive_score, negative_score) ==
    LET draft ==
            IF positive_score >= negative_score /\ positive_score > 5
            THEN [impact |-> "Positive", confidence |-> IF positive_score * 2 < 100 THEN positive_score * 2 ELSE 100]
            ELSE IF negative_score > positive_score /\ negative_score > 5
            THEN [impact |-> "Negative", confidence |-> IF negative_score * 2 < 100 THEN negative_score * 2 ELSE 100]
            ELSE [impact |-> "Neutral",
                  confidence |-> 40 + (IF positive_score >= negative_score
                                       THEN positive_score - negative_score
                                       ELSE negative_score - positive_score)]
    IN  [impact |-> draft.impact,
         confidence |-> IF draft.confidence < 85 THEN draft.confidence ELSE 85]

\* Lines 181-192: the decision on the two lexicon totals.
ImpactAndConfidence(positive_score, negative_score) ==
    LET draft ==
            IF positive_score > negative_score /\ positive_score > 5
            THEN [impact |-> "Positive", confidence |-> IF positive_score * 2 < 100 THEN positive_score * 2 ELSE 100]
            ELSE IF negative_score > positive_score /\ negative_score > 5
            THEN [impact |-> "Negative", confidence |-> IF negative_score * 2 < 100 THEN negative_score * 2 ELSE 100]
            ELSE [impact |-> "Neutral",
                  confidence |-> 40 + (IF positive_score >= negative_score
                                       THEN positive_score - negative_score
                                       ELSE negative_score - positive_score)]
    IN  [impact |-> draft.impact,
         confidence |-> IF draft.confidence < 85 THEN draft.confidence ELSE 85]

\* Lines 165-192.
_keyword_analysis(text) ==
    ImpactAndConfidence(Score(positive_keywords, text, Len(positive_keywords)),
                        Score(negative_keywords, text, Len(negative_keywords)))

\* A policy that also escalates confidence 60; C9 must tell it from the
\* policy of the code.
_needs_llm_analysis_inclusive(keyword_result, text) ==
    \/ keyword_result.confidence <= 60
    \/ \E keyword \in high_impact_keywords : Contains(text, keyword)

\* A policy that escalates below 50 only; C28 must tell it from the policy
\* of the code.
_needs_llm_analysis_below_half(keyword_result, text) ==
    \/ keyword_result.confidence < 50
    \/ \E keyword \in high_impact_keywords : Contains(text, keyword)

\* Lines 194-209.
_needs_llm_analysis(keyword_result, text) ==
    \/ keyword_result.confidence < 60
    \/ \E keyword \in high_impact_keywords : Contains(text, keyword)

\* A detection that searches the text as it is written; C23 must tell it
\* from the detection of the code.
_detect_coins_case_sensitive(text) ==
    {crypto_patterns[i].coin : i \in
        {j \in 1..Len(crypto_patterns) :
            \E alias \in crypto_patterns[j].aliases : WordMatches(text, alias) # {}}}

\* Lines 302-312: the coins whose pattern is found in the lowercased text.
_detect_coins(text) ==
    LET text_lower == Lower(text)
    IN  {crypto_patterns[i].coin : i \in
            {j \in 1..Len(crypto_patterns) :
                \E alias \in crypto_patterns[j].aliases : WordMatches(text_lower, alias) # {}}}

\* Line 132: "ar" if a character of the Arabic block occurs, else "en".
DetectLang(text) ==
    IF \E i \in 1..Len(text) : text[i] \in ArabicChars THEN "ar" ELSE "en"

\* Line 320.
ConfidenceText(confidence) ==
    IF confidence > 75 THEN "High" ELSE IF confidence > 50 THEN "Medium" ELSE "Low"

\* The formatted text, kept as its parts: the template (by language), the
\* title cut to 80 characters, with "..." when it was longer, the impact
\* and the confidence label.
_generate_summary(title, impact, confidence, lang) ==
    [impact     |-> impact,
     confidence |-> ConfidenceText(confidence),
     title      |-> IF Len(title) > 80 THEN SubSeq(title, 1, 80) ELSE title,
     template   |-> lang,
     ellipsis   |-> Len(title) > 80]

(***************************************************************************)
(* The reply of the completion endpoint                                    *)
(***************************************************************************)

\* A field of the JSON object the model replied: absent, or a value with
\* its JSON type.
Absent == [type |-> "absent", value |-> 0]

JNum(n) == [type |-> "number", value |-> n]

JText(t) == [type |-> "string", value |-> t]

JNull == [type |-> "null", value |-> 0]

\* The reply text: prose with no braces, braces that are no JSON, or a
\* JSON object.
Prose == [impact |-> Absent, confidence |-> Absent, summary |-> Absent, kind |-> "prose"]

Broken == [impact |-> Absent, confidence |-> Absent, summary |-> Absent, kind |-> "broken"]

Object(impact, confidence, summary) ==
    [impact |-> impact, confidence |-> confidence, summary |-> summary, kind |-> "object"]

\* data.get(key, default)
GetOr(field, default) == IF field.type = "absent" THEN default ELSE field

\* Lines 278-300.  None when no JSON object is found (284-285), when
\* json.loads fails, when ImpactType(...) rejects the impact, when min/max
\* cannot compare the confidence with a number, or when the model's
\* validation rejects a field (298-300).
_parse_llm_response(response, lang) ==
    IF response.kind # "object" THEN None
    ELSE LET impact     == GetOr(response.impact, JText("Neutral"))
             confidence == GetOr(response.confidence, JNum(50))
             summary    == GetOr(response.summary, JText("Analysis completed"))
             clamped    == IF confidence.value < 0 THEN 0
                           ELSE IF confidence.value > 100 THEN 100
                           ELSE confidence.value
         IN  IF /\ impact.type = "string"
                /\ impact.value \in ImpactType
                /\ confidence.type = "number"
                /\ summary.type = "string"
             THEN NewsAnalysisResponse(impact.value, clamped, {},
                                       [text |-> summary.value, template |-> "llm"],
                                       lang, FALSE, None)
             ELSE None

\* What one POST to the completion endpoint can end in.
TransportError == [kind |-> "transport_error", status |-> 0, reply |-> Prose]

Timeout == [kind |-> "timeout", status |-> 0, reply |-> Prose]

Http(status, reply) == [kind |-> "http", status |-> status, reply |-> reply]

\* A 200 whose body has no choices[0].message.content (line 251 raises).
NoChoices == [kind |-> "no_choices", status |-> 200, reply |-> Prose]

\* An LLM stage that parses the body whatever the HTTP status; C3 must
\* tell it from the stage of the code.
_llm_analysis_any_status(outcome, lang) ==
    IF outcome.kind = "http"
    THEN _parse_llm_response(outcome.reply, lang)
    ELSE None

\* The endpoint answered 200 with a JSON object in the completion.
Replied(outcome) ==
    outcome.kind = "http" /\ outcome.status = 200 /\ outcome.reply.kind = "object"

\* Lines 222-258, once the key is present: the result of the request.
_llm_analysis(outcome, lang) ==
    IF outcome.kind = "http" /\ outcome.status = 200
    THEN _parse_llm_response(outcome.reply, lang)
    ELSE None

(***************************************************************************)
(* The news items of the model                                             *)
(***************************************************************************)

NewsCatalog ==
    [
     Scenario1 |->
        [summary |-> Str(<<"B","u","l","l","i","s","h"," ","m","o","m","e","n","t","u","m"," ","c","o","n","t","i","n","u","e","s">>),
         title   |-> Str(<<"B","i","t","c","o","i","n"," ","s","u","r","g","e","s"," ","p","a","s","t"," ","n","e","w"," ","h","i","g","h">>)],
     Scenario2 |->
        [summary |-> Str(<<"M","a","r","k","e","t"," ","r","e","a","c","t","s">>),
         title   |-> Str(<<"S","E","C"," ","a","n","n","o","u","n","c","e","s"," ","n","e","w"," ","r","e","g","u","l","a","t","i","o","n">>)],
     Rally |->
        [summary |-> Str(<<"m","o","o","n"," ","g","a","i","n"," ","u","p">>),
         title   |-> Str(<<"B","T","C"," ","r","a","l","l","y"," ","s","u","r","g","e"," ","s","o","a","r">>)],
     Mild |->
        [summary |-> Str(<<"s","o","a","r"," ","u","p">>),
         title   |-> Str(<<"E","T","H"," ","r","a","l","l","y"," ","s","u","r","g","e">>)],
     Bank |->
        [summary |-> Str(<<"b","a","n","k"," ","r","u","n">>),
         title   |-> Str(<<"c","r","a","s","h"," ","c","o","l","l","a","p","s","e"," ","s","c","a","m"," ","f","r","a","u","d">>)],
     Quiet |->
        [summary |-> Str(<<"n","o","t","h","i","n","g"," ","n","e","w">>),
         title   |-> Str(<<"M","a","r","k","e","t"," ","u","p","d","a","t","e">>)],
     NullTitle |->
        [summary |-> Str(<<"u","p">>),
         title   |-> JsonNull],
     EmptySummary |->
        [summary |-> Str(<<>>),
         title   |-> Str(<<"u","p">>)],
     Arabic |->
        [summary |-> Str(<<"ARABIC_BEH","ARABIC_TEH","ARABIC_KAF">>),
         title   |-> Str(<<"B","T","C"," ","u","p"," ">>)]
    ]

NewsNames == DOMAIN NewsCatalog

\* Both fields are strings: lines 126-135 run without a fault.
WellTyped(news) == IsStr(NewsCatalog[news].title) /\ IsStr(NewsCatalog[news].summary)

WellTypedNews == {news \in NewsNames : WellTyped(news)}

\* f"{title} {summary}".lower() (line 126)
FullText(news) ==
    Lower(NewsCatalog[news].title.chars \o <<" ">> \o NewsCatalog[news].summary.chars)

\* title + summary (lines 70, 132, 135)
TitlePlusSummary(news) == NewsCatalog[news].title.chars \o NewsCatalog[news].summary.chars

(***************************************************************************)
(* news_analyzer.py: _analyze_news_item on a catalogued item               *)
(***************************************************************************)

\* Lines 125-138: what the item's invocation computes before it may wait
\* for the LLM.
Phase1 ==
    [news \in WellTypedNews |->
        LET full_text      == FullText(news)
            keyword_result == _keyword_analysis(full_text)
        IN  [affected_coins |-> _detect_coins(TitlePlusSummary(news)),
             lang           |-> DetectLang(TitlePlusSummary(news)),
             keyword_result |-> keyword_result,
             needs_llm      |-> _needs_llm_analysis(keyword_result, full_text)]]

\* A keyword verdict without the cap of line 158; C8 must tell it from the
\* verdict of the code.
KeywordVerdictUncapped(news) ==
    LET p          == Phase1[news]
        impact     == p.keyword_result.impact
        confidence == p.keyword_result.confidence
    IN  NewsAnalysisResponse(
            impact,
            confidence,
            p.affected_coins,
            _generate_summary(NewsCatalog[news].title.chars, impact, confidence, p.lang),
            p.lang,
            confidence < 60,
            None)

\* Lines 150-163: the verdict built from a keyword draft, with the title,
\* the language and the coins of the item.
KeywordResponse(news, keyword_result) ==
    LET p          == Phase1[news]
        impact     == keyword_result.impact
        confidence == keyword_result.confidence
    IN  NewsAnalysisResponse(
            impact,
            IF confidence < 75 THEN confidence ELSE 75,
            p.affected_coins,
            _generate_summary(NewsCatalog[news].title.chars, impact, confidence, p.lang),
            p.lang,
            confidence < 60,
            None)

\* Lines 129 and 150-163: the verdict built from the keyword draft of the
\* item.
KeywordVerdict(news) == KeywordResponse(news, Phase1[news].keyword_result)

\* An LLM verdict left with the coins the parser gave it (none); C11 must
\* tell it from the verdict of the code.
LlmVerdictOwnCoins(news, llm_result) == llm_result

\* Lines 144-146: the LLM's verdict with the pipeline's coins.
LlmVerdict(news, llm_result) ==
    [llm_result EXCEPT !.affected_coins =
        IF Phase1[news].affected_coins # {}
        THEN Phase1[news].affected_coins
        ELSE llm_result.affected_coins]

\* Lines 140-163 once the LLM stage has returned llm_result (None when it
\* is unavailable).
FinalVerdict(news, llm_result) ==
    IF llm_result # None
    THEN LlmVerdict(news, llm_result)
    ELSE KeywordVerdict(news)

\* Lines 108-115: the placeholder of a failed item; error is str(result).
Placeholder(message) ==
    [impact         |-> "Neutral",
     confidence     |-> 0,
     affected_coins |-> {},
     summary        |-> [text |-> "Analysis failed", template |-> "failed"],
     lang           |-> "en",
     error          |-> [message |-> message]]

\* result.dict(): the verdict as a plain mapping.
AsDict(verdict) == verdict

(***************************************************************************)
(* cache_manager.py: keys and stored values                                *)
(***************************************************************************)

\* f"news:{hash(title + summary)}" (line 70).  The hash of a str depends
\* on the seed the interpreter drew when the process started (or was given
\* in PYTHONHASHSEED); for one seed it is taken to be injective on the
\* strings of the model: equal strings have one digest, which is written
\* as the name of one item with that title + summary.
\* The first process has seed_a.
HashSeeds == {"seed_a", "seed_b"}

Digest ==
    [news \in WellTypedNews |->
        CHOOSE n \in WellTypedNews : TitlePlusSummary(n) = TitlePlusSummary(news)]

Key(seed, news) == [prefix |-> "news", digest |-> <<seed, Digest[news]>>]

\* json.dumps(value, default=str) and json.loads: the stored text of a
\* verdict carries its fields.
JsonDumps(value) == [json |-> value]

JsonLoads(text) == text.json

\* NewsAnalysisResponse(**cached_result) (line 76): the model rebuilt,
\* validators applied again.
FromCache(cached_result) ==
    NewsAnalysisResponse(cached_result.impact, cached_result.confidence,
                         cached_result.affected_coins, cached_result.summary,
                         cached_result.lang, cached_result.low_confidence,
                         cached_result.error)

\* A key the store does not hold (GET answers nil).
Nil == [nil |-> TRUE]

(***************************************************************************)
(* Bounds of the model                                                     *)
(***************************************************************************)

\* Concurrent single-item requests.
MaxSingle == 2

\* Items of one batch.
MaxBatch == 2

\* Requests and direct cache-manager calls started in one run.
MaxOps == 2

\* The largest limit a check_rate_limit call is given.
MaxLimit == 2

\* The check_rate_limit calls that can be in progress at once.
MaxCallers == 2

RlCallers == 1..MaxCallers

Singles == 1..MaxSingle

\* The items a request may carry.
RequestNews == {"Scenario1", "Rally", "Bank", "NullTitle", "EmptySummary"}

\* The items a single-item request may carry.
SingleNews == {"Scenario1", "Rally", "NullTitle"}

\* The keys of the items a request may carry.
CacheKeys ==
    {Key(seed, news) : seed \in HashSeeds,
                       news \in (SingleNews \cup RequestNews) \cap WellTypedNews}

\* The title+summary strings of these items.
Texts == {Digest[news] : news \in (SingleNews \cup RequestNews) \cap WellTypedNews}

\* What the completion endpoint may answer.
LlmOutcomes ==
    {Timeout,
     TransportError,
     NoChoices,
     Http(500, Prose),
     Http(429, Object(Absent, Absent, Absent)),
     Http(200, Prose),
     Http(200, Broken),
     Http(200, Object(JText("Bullish"), JNum(70), JText("moderately bullish"))),
     Http(200, Object(JText("Negative"), JText("high"), JText("sell-off"))),
     Http(200, Object(JText("Negative"), JNum(150), Absent))}

RateIdentifiers == {"alice"}

(***************************************************************************)
(* State                                                                   *)
(***************************************************************************)

VARIABLES
    openai_key,       \* OPENAI_API_KEY is set (news_analyzer.py line 215)
    webhook_enabled,  \* WebhookManager.enabled (webhook_manager.py line 22)
    phase,            \* lifespan: "starting", "running" or "failed"
    analyzer,         \* the global analyzer: "none" or "ready"
    redis,            \* CacheManager.redis: "none" or "client"
    store_up,         \* the Redis server answers
    cache,            \* the server's news:* keys: the stored text, or Nil
    rate,             \* the server's rate_limit:* keys: a counter, or Nil
    stats,            \* CacheManager.stats
    hash_seed,        \* the seed of hash() in the running process
    completed,        \* per title+summary: the verdict of the latest
                      \* analyze_single that returned with the store reachable
                      \* and the key it was stored under, until the TTL ends
    single,           \* the single-item requests in progress
    batch,            \* the batch request in progress
    rl,               \* the check_rate_limit calls in progress
    ops,              \* requests and calls started so far
    probe             \* the input and the result of a pure stage run alone

vars == <<openai_key, webhook_enabled, hash_seed, phase, analyzer, redis, store_up,
          cache, rate, stats, completed, single, batch, rl, ops, probe>>

\* Line 70 in the running process.
cache_key(news) == Key(hash_seed, news)

\* What no request changes: the configuration, the seed of the process
\* and the pure-stage probe.
config == <<openai_key, webhook_enabled, hash_seed, probe>>

Unreachable == [unreachable |-> TRUE]

Raised(type) == [raised |-> type]

\* A single-item request.  pc: "idle", "get" (waiting for the cache),
\* "llm" (waiting for the completion endpoint), "ready" (verdict built,
\* waiting for the cache write), "done".  reachable and fresh record what
\* held when the cache was asked: the server answered, and the verdict of
\* `completed` for the key; llm records how the LLM stage went: "skipped",
\* "no_key", "pending", "down" (no usable HTTP reply) or "replied".
IdleSingle ==
    [status |-> "none", news |-> "none", pc |-> "idle", reachable |-> FALSE,
     fresh |-> None, scored |-> FALSE, llm |-> "skipped",
     llm_calls |-> 0, cache_writes |-> 0, result |-> None]

\* The batch request.  outage records that the server was unreachable at
\* some moment since the request arrived; webhook is what the POST to the
\* webhook URL ended in and delivered what send_batch_results returned.
IdleBatch ==
    [status |-> "none", pc |-> "idle", entry |-> "none", items |-> <<>>,
     tasks |-> <<>>, results |-> <<>>, webhook_attempts |-> 0,
     outage |-> FALSE, webhook |-> None,
     delivered |-> FALSE,
     summary_stats |-> None]

\* A check_rate_limit call.  overlapped records that another call was
\* between its GET and its return at some moment of this call.
IdleRl ==
    [pc |-> "idle", reachable |-> TRUE, identifier |-> "none", limit |-> 0,
     current |-> Nil, allowed |-> TRUE, overlapped |-> FALSE]

\* The call is between its GET and its last command.
InProgress(call) == call.pc \in {"get", "setex", "incr"}

PendingTask ==
    [outcome |-> None, pc |-> "pending", llm |-> "skipped", llm_calls |-> 0]

NoProbe == [kind |-> "none", stage |-> "none"]

\* The process after the construction of its objects, nothing started.
Constructed ==
    /\ phase = "starting"
    /\ analyzer = "none"
    /\ redis = "none"
    /\ cache = [k \in CacheKeys |-> Nil]
    /\ rate = [id \in RateIdentifiers |-> Nil]
    /\ stats = [hits |-> 0, misses |-> 0, total |-> 0]
    /\ completed = [t \in Texts |-> None]
    /\ single = [s \in Singles |-> IdleSingle]
    /\ batch = IdleBatch
    /\ rl = [c \in RlCallers |-> IdleRl]
    /\ ops = 0

Init ==
    /\ openai_key \in BOOLEAN
    /\ webhook_enabled \in BOOLEAN
    /\ store_up \in BOOLEAN
    /\ hash_seed = "seed_a"
    /\ probe = NoProbe
    /\ Constructed

(***************************************************************************)
(* The environment: the Redis server and the expiry of its keys            *)
(***************************************************************************)

StoreFails ==
    /\ store_up
    /\ store_up' = FALSE
    /\ batch' = IF batch.pc = "idle" THEN batch ELSE [batch EXCEPT !.outage = TRUE]
    /\ UNCHANGED <<config, phase, analyzer, redis, cache, rate, stats, completed, single, rl, ops>>

StoreRecovers ==
    /\ ~store_up
    /\ store_up' = TRUE
    /\ UNCHANGED <<config, phase, analyzer, redis, cache, rate, stats, completed, single, batch, rl, ops>>

\* The TTL of a news:* key (43200 s, line 82) runs out.
CacheExpires ==
    \E k \in CacheKeys :
        /\ cache[k] # Nil
        /\ cache' = [cache EXCEPT ![k] = Nil]
        /\ completed' = [t \in Texts |->
                IF completed[t] = None THEN None
                ELSE IF completed[t].key = k THEN None ELSE completed[t]]
        /\ UNCHANGED <<config, phase, analyzer, redis, store_up, rate, stats, single, batch, rl, ops>>

\* The window of a rate_limit:* key that carries an expiry runs out.
RateExpires ==
    \E id \in RateIdentifiers :
        /\ rate[id] # Nil
        /\ rate[id].expires
        /\ rate' = [rate EXCEPT ![id] = Nil]
        /\ UNCHANGED <<config, phase, analyzer, redis, store_up, cache, stats, completed, single, batch, rl, ops>>

\* The process is stopped between two requests (lifespan, lines 69-72)
\* and started again: the objects of the process are gone, hash() has the
\* seed of the new process (the same one again, or another), and the Redis
\* server keeps its keys.  A restart after the last request of the run
\* changes nothing that is observed.
Restart ==
    /\ phase = "running"
    /\ ops < MaxOps
    /\ \A s \in Singles : single[s].pc \in {"idle", "done"}
    /\ batch.pc = "idle"
    /\ \A c \in RlCallers : rl[c].pc = "idle"
    /\ single' = [s \in Singles |-> IdleSingle]
    /\ phase' = "starting"
    /\ analyzer' = "none"
    /\ redis' = "none"
    /\ stats' = [hits |-> 0, misses |-> 0, total |-> 0]
    /\ hash_seed' \in HashSeeds
    /\ UNCHANGED <<openai_key, webhook_enabled, probe, store_up, cache, rate, completed,
                   batch, rl, ops>>

(***************************************************************************)
(* mcp_news_main.py: lifespan                                              *)
(***************************************************************************)

\* Lines 50-65 with CacheManager.connect (cache_manager.py 23-40): the
\* client is assigned, the ping decides; a failed ping is raised again and
\* the analyzer is never constructed.
Lifespan ==
    /\ phase = "starting"
    /\ redis' = "client"
    /\ IF store_up
       THEN phase' = "running" /\ analyzer' = "ready"
       ELSE phase' = "failed" /\ analyzer' = analyzer
    /\ UNCHANGED <<config, store_up, cache, rate, stats, completed, single, batch, rl, ops>>

(***************************************************************************)
(* cache_manager.py: get, set, delete                                      *)
(***************************************************************************)

\* The server's answer to GET key: the stored text, Nil, or no answer
\* (no client, line 60; an error of the request, lines 74-76).
GetReply(key) ==
    IF redis = "none" \/ ~store_up THEN Unreachable ELSE cache[key]

\* Lines 58-76: the value get returns.
get(reply) ==
    IF reply = Unreachable \/ reply = Nil THEN None ELSE JsonLoads(reply)

\* Counters that count a get without an answer as a miss and leave the
\* total alone; C27 must tell them from the counters of the code.
StatsAfterGetCountingErrors(reply) ==
    IF reply = Unreachable THEN [stats EXCEPT !.misses = @ + 1]
    ELSE IF reply # Nil
    THEN [stats EXCEPT !.hits = @ + 1, !.total = @ + 1]
    ELSE [stats EXCEPT !.misses = @ + 1, !.total = @ + 1]

\* Lines 65-72: the counters after the answer.
StatsAfterGet(reply) ==
    IF reply = Unreachable THEN stats
    ELSE IF reply # Nil
    THEN [stats EXCEPT !.hits = @ + 1, !.total = @ + 1]
    ELSE [stats EXCEPT !.misses = @ + 1, !.total = @ + 1]

\* Lines 78-88: SETEX reaches the server or set returns False.
SetSucceeds == redis # "none" /\ store_up

CacheAfterSet(key, value) ==
    IF SetSucceeds THEN [cache EXCEPT ![key] = JsonDumps(value)] ELSE cache

(***************************************************************************)
(* Single-item requests: mcp_endpoint (lines 167-183) and analyze_single   *)
(***************************************************************************)

\* The request arrives; both fields must be truthy (line 172), then
\* analyze_single asks the cache (line 73).  The slots are interchangeable:
\* a request takes the first free one; a slot keeps the answered request
\* (the response follows the return of analyze_single with no await,
\* lines 175-183) until the next request takes it.
McpSingle(s, news) ==
    /\ phase = "running"
    /\ ops < MaxOps
    /\ single[s].pc \in {"idle", "done"}
    /\ \A t \in 1..(s - 1) : single[t].pc \notin {"idle", "done"}
    /\ ops' = ops + 1
    /\ IF Truthy(NewsCatalog[news].title) /\ Truthy(NewsCatalog[news].summary)
       THEN single' = [single EXCEPT ![s] = [IdleSingle EXCEPT !.pc = "get", !.news = news]]
       ELSE single' = [single EXCEPT ![s] =
                [IdleSingle EXCEPT !.pc = "done", !.news = news, !.status = "client_error"]]
    /\ UNCHANGED <<config, phase, analyzer, redis, store_up, cache, rate, stats, completed, batch, rl>>

\* The invocation of _analyze_news_item up to its first wait: the item is
\* scored, and either the request to the LLM is sent (escalated and a key
\* is configured, lines 140-143 and 215-239) or the keyword verdict is
\* final.
\* An invocation that sends the request to the LLM without looking for the
\* key; C10 must tell it from the invocation of the code.
StartAnalysisWithoutKey(call, news) ==
    LET p == Phase1[news]
    IN  IF p.needs_llm
        THEN [call EXCEPT !.pc = "llm", !.scored = TRUE, !.llm = "pending",
                          !.llm_calls = @ + 1]
        ELSE [call EXCEPT !.pc = "ready", !.scored = TRUE,
                          !.llm = "skipped",
                          !.result = KeywordVerdict(news)]

\* Lines 125-163 up to the first wait (with line 216 of _llm_analysis).
StartAnalysis(call, news) ==
    LET p == Phase1[news]
    IN  IF p.needs_llm /\ openai_key
        THEN [call EXCEPT !.pc = "llm", !.scored = TRUE, !.llm = "pending",
                          !.llm_calls = @ + 1]
        ELSE [call EXCEPT !.pc = "ready", !.scored = TRUE,
                          !.llm = IF p.needs_llm THEN "no_key" ELSE "skipped",
                          !.result = KeywordVerdict(news)]

\* The verdict `completed` holds for the item's title+summary, if any.
Fresh(news) ==
    IF completed[Digest[news]] = None THEN None
    ELSE completed[Digest[news]].verdict

\* Lines 73-79: the cache answers; a hit is returned at once, a miss
\* starts the analysis.
SingleGet(s) ==
    LET call  == single[s]
        reply == GetReply(cache_key(call.news))
        cached_result == get(reply)
    IN  /\ call.pc = "get"
        /\ stats' = StatsAfterGet(reply)
        /\ IF cached_result # None
           THEN single' = [single EXCEPT ![s] =
                    [call EXCEPT !.pc = "done", !.reachable = (reply # Unreachable),
                                 !.fresh = Fresh(call.news),
                                 !.result = FromCache(cached_result), !.status = "ok"]]
           ELSE single' = [single EXCEPT ![s] =
                    StartAnalysis([call EXCEPT !.reachable = (reply # Unreachable),
                                               !.fresh = Fresh(call.news)],
                                  call.news)]
        /\ UNCHANGED <<config, phase, analyzer, redis, store_up, cache, rate, completed, batch, rl, ops>>

\* The request to the completion endpoint ends (lines 239-258), and the
\* verdict is the LLM's or the keyword one (lines 144-163).
SingleLlm(s) ==
    \E outcome \in LlmOutcomes :
        LET call       == single[s]
            llm_result == _llm_analysis(outcome, Phase1[call.news].lang)
        IN  /\ call.pc = "llm"
            /\ single' = [single EXCEPT ![s] =
                    [call EXCEPT !.pc = "ready",
                                 !.llm = IF Replied(outcome) THEN "replied" ELSE "down",
                                 !.result = FinalVerdict(call.news, llm_result)]]
            /\ UNCHANGED <<config, phase, analyzer, redis, store_up, cache, rate, stats, completed, batch, rl, ops>>

\* Lines 82-84 and 177-183: the verdict is stored and returned.
SingleSet(s) ==
    LET call == single[s]
    IN  /\ call.pc = "ready"
        /\ cache' = CacheAfterSet(cache_key(call.news), AsDict(call.result))
        /\ single' = [single EXCEPT ![s] =
                [call EXCEPT !.pc = "done", !.status = "ok",
                             !.cache_writes = IF SetSucceeds THEN @ + 1 ELSE @]]
        /\ completed' = IF store_up
                        THEN [completed EXCEPT ![Digest[call.news]] =
                                [verdict |-> call.result, key |-> cache_key(call.news)]]
                        ELSE completed
        /\ UNCHANGED <<config, phase, analyzer, redis, store_up, rate, stats, batch, rl, ops>>

(***************************************************************************)
(* Batch requests: mcp_endpoint (lines 147-165), analyze_endpoint and      *)
(* analyze_batch                                                           *)
(***************************************************************************)

\* An element of arguments["news"]: a JSON object with title and summary,
\* or some other JSON value (a string, a number).
McpItems ==
    {[news |-> news, shape |-> "mapping"] : news \in RequestNews}
        \cup {[news |-> "none", shape |-> "not_mapping"]}

\* An element of BatchNewsRequest.news: a NewsItem model object.
RestItems == {[news |-> news, shape |-> "model"] : news \in RequestNews}

ListsOf(S) == UNION {[1..k -> S] : k \in 0..MaxBatch}

\* max_items of BatchNewsRequest.news.
MaxItems == 50

\* The lists of one item more than max_items: the same item MaxItems + 1
\* times, an item that needs no LLM call.
Oversized(shape) == {[i \in 1..(MaxItems + 1) |-> [news |-> "Rally", shape |-> shape]]}

\* The validation of BatchNewsRequest and NewsItem (response_models.py
\* 15-18 and 40-42); the catalogue has no title over 500 or summary over
\* 2000 characters.
RestValid(items) ==
    /\ Len(items) >= 1
    /\ Len(items) <= MaxItems
    /\ \A i \in 1..Len(items) :
        /\ Truthy(NewsCatalog[items[i].news].title)
        /\ Truthy(NewsCatalog[items[i].news].summary)

\* item.get exists (lines 95-96): a dict has it, a NewsItem or a plain
\* JSON value has not.
HasGet(item) == item.shape = "mapping"

\* Lines 92-99: the loop that creates the invocations raises at the first
\* item without .get, before anything is awaited.
LaunchFails(items) == \E i \in 1..Len(items) : ~HasGet(items[i])

Launched(entry, items) ==
    [IdleBatch EXCEPT !.pc = "gather", !.entry = entry, !.items = items,
                      !.outage = ~store_up,
                      !.tasks = [i \in 1..Len(items) |-> PendingTask]]

\* tools/call with "news" in the arguments (lines 147-153).
McpBatch ==
    \E is_list \in BOOLEAN, items \in ListsOf(McpItems) \cup Oversized("mapping") :
        /\ phase = "running"
        /\ ops < MaxOps
        /\ batch.pc = "idle"
        /\ is_list \/ items = <<>>
        /\ ops' = ops + 1
        /\ batch' =
            IF ~is_list \/ Len(items) = 0
            THEN [IdleBatch EXCEPT !.pc = "done", !.entry = "mcp", !.items = items,
                                   !.status = "client_error"]
            ELSE IF LaunchFails(items)
            THEN [IdleBatch EXCEPT !.pc = "done", !.entry = "mcp", !.items = items,
                                   !.status = "internal_error"]
            ELSE Launched("mcp", items)
        /\ UNCHANGED <<config, phase, analyzer, redis, store_up, cache, rate, stats, completed, single, rl>>

\* POST /analyze (lines 237-256).
RestAnalyze ==
    \E items \in ListsOf(RestItems) \cup Oversized("model") :
        /\ phase = "running"
        /\ ops < MaxOps
        /\ batch.pc = "idle"
        /\ ops' = ops + 1
        /\ batch' =
            IF ~RestValid(items)
            THEN [IdleBatch EXCEPT !.pc = "done", !.entry = "rest", !.items = items,
                                   !.status = "validation_error"]
            ELSE IF LaunchFails(items)
            THEN [IdleBatch EXCEPT !.pc = "done", !.entry = "rest", !.items = items,
                                   !.status = "server_error"]
            ELSE Launched("rest", items)
        /\ UNCHANGED <<config, phase, analyzer, redis, store_up, cache, rate, stats, completed, single, rl>>

\* The invocation of item i runs to its first wait (gather starts the
\* invocations in the order of the items): a fault of lines 126-135 is the
\* invocation's result, else as StartAnalysis.
TaskStart(task, news) ==
    IF ~WellTyped(news)
    THEN [task EXCEPT !.pc = "done", !.outcome = Raised("TypeError")]
    ELSE LET p == Phase1[news]
         IN  IF p.needs_llm /\ openai_key
             THEN [task EXCEPT !.pc = "llm", !.llm = "pending", !.llm_calls = @ + 1]
             ELSE [task EXCEPT !.pc = "done",
                               !.llm = IF p.needs_llm THEN "no_key" ELSE "skipped",
                               !.outcome = KeywordVerdict(news)]

TaskRun ==
    \E i \in 1..Len(batch.tasks) :
        /\ batch.pc = "gather"
        /\ batch.tasks[i].pc = "pending"
        /\ \A j \in 1..(i - 1) : batch.tasks[j].pc # "pending"
        /\ batch' = [batch EXCEPT !.tasks[i] = TaskStart(@, batch.items[i].news)]
        /\ UNCHANGED <<config, phase, analyzer, redis, store_up, cache, rate, stats, completed, single, rl, ops>>

\* Replies taken in the order of the items, each after the invocations
\* before it have finished; C24 must tell it from the code.
TaskLlmInOrder ==
    \E i \in 1..Len(batch.tasks), outcome \in LlmOutcomes :
        LET news       == batch.items[i].news
            llm_result == _llm_analysis(outcome, Phase1[news].lang)
        IN  /\ batch.pc = "gather"
            /\ batch.tasks[i].pc = "llm"
            /\ \A j \in 1..(i - 1) : batch.tasks[j].pc = "done"
            /\ batch' = [batch EXCEPT !.tasks[i] =
                    [@ EXCEPT !.pc = "done",
                              !.llm = IF Replied(outcome) THEN "replied" ELSE "down",
                              !.outcome = FinalVerdict(news, llm_result)]]
            /\ UNCHANGED <<config, phase, analyzer, redis, store_up, cache, rate, stats, completed, single, rl, ops>>

\* The request of an invocation ends: a reply, an error, or the timeout of
\* 10 seconds (line 243).
TaskLlm ==
    \E i \in 1..Len(batch.tasks), outcome \in LlmOutcomes :
        LET news       == batch.items[i].news
            llm_result == _llm_analysis(outcome, Phase1[news].lang)
        IN  /\ batch.pc = "gather"
            /\ batch.tasks[i].pc = "llm"
            /\ batch' = [batch EXCEPT !.tasks[i] =
                    [@ EXCEPT !.pc = "done",
                              !.llm = IF Replied(outcome) THEN "replied" ELSE "down",
                              !.outcome = FinalVerdict(news, llm_result)]]
            /\ UNCHANGED <<config, phase, analyzer, redis, store_up, cache, rate, stats, completed, single, rl, ops>>

IsException(outcome) == "raised" \in DOMAIN outcome

\* Lines 104-117: one entry per invocation, in the order of the items.
processed_results(tasks) ==
    [i \in 1..Len(tasks) |->
        IF IsException(tasks[i].outcome)
        THEN Placeholder(tasks[i].outcome.raised)
        ELSE AsDict(tasks[i].outcome)]

\* A tally that counts a confidence of exactly 75 as high; C21 must tell
\* it from the tally of the code.
_generate_summary_stats_inclusive(results) ==
    LET Positive(result) == result.impact = "Positive"
        Negative(result) == result.impact = "Negative"
        Neutral(result)  == result.impact = "Neutral"
        High(result)     == result.confidence >= 75
        Low(result)      == ~High(result)
        HasError(result) == result.error # None
    IN  [low_confidence  |-> Cardinality({i \in 1..Len(results) : Low(results[i])}),
         positive        |-> Cardinality({i \in 1..Len(results) : Positive(results[i])}),
         negative        |-> Cardinality({i \in 1..Len(results) : Negative(results[i])}),
         neutral         |-> Cardinality({i \in 1..Len(results) : Neutral(results[i])}),
         high_confidence |-> Cardinality({i \in 1..Len(results) : High(results[i])}),
         errors          |-> Cardinality({i \in 1..Len(results) : HasError(results[i])})]

\* webhook_manager.py 96-125: the impact in lower case names its counter,
\* confidence > 75 is high and anything else low, a truthy error counts.
_generate_summary_stats(results) ==
    LET Positive(result) == result.impact = "Positive"
        Negative(result) == result.impact = "Negative"
        Neutral(result)  == result.impact = "Neutral"
        High(result)     == result.confidence > 75
        Low(result)      == ~High(result)
        HasError(result) == result.error # None
    IN  [low_confidence  |-> Cardinality({i \in 1..Len(results) : Low(results[i])}),
         positive        |-> Cardinality({i \in 1..Len(results) : Positive(results[i])}),
         negative        |-> Cardinality({i \in 1..Len(results) : Negative(results[i])}),
         neutral         |-> Cardinality({i \in 1..Len(results) : Neutral(results[i])}),
         high_confidence |-> Cardinality({i \in 1..Len(results) : High(results[i])}),
         errors          |-> Cardinality({i \in 1..Len(results) : HasError(results[i])})]

\* gather returns (line 101); the results are assembled and, with a
\* webhook configured, the delivery is started (lines 156-157, 249-250):
\* the statistics are computed (line 38) and the POST is sent.
Gather ==
    /\ batch.pc = "gather"
    /\ \A i \in 1..Len(batch.tasks) : batch.tasks[i].pc = "done"
    /\ batch' = [batch EXCEPT
            !.results = processed_results(batch.tasks),
            !.pc = IF webhook_enabled THEN "webhook" ELSE "done",
            !.webhook_attempts = IF webhook_enabled THEN @ + 1 ELSE @,
            !.summary_stats = IF webhook_enabled
                              THEN _generate_summary_stats(processed_results(batch.tasks))
                              ELSE @,
            !.status = IF webhook_enabled THEN @ ELSE "ok"]
    /\ UNCHANGED <<config, phase, analyzer, redis, store_up, cache, rate, stats, completed, single, rl, ops>>

\* What the POST to the webhook URL can end in.
WebhookOutcomes ==
    {Http(200, Prose), Http(202, Prose), Http(500, Prose), Timeout, TransportError}

Returned(value) == [returned |-> value]

\* WebhookPayload(...) at lines 41-47 validates every result as a
\* NewsAnalysisResponse.
PayloadValid(results) ==
    \A i \in 1..Len(results) : FieldsValid(results[i].impact, results[i].confidence)

\* webhook_manager.py 62-94.  A status of 200, 201 or 202 is success, any
\* other status a failure.  An exception raised inside the try reaches
\* `except aiohttp.ClientTimeout`, which names a class that is no
\* exception: matching against it raises TypeError out of _send_webhook.
_send_webhook(outcome) ==
    IF outcome.kind = "http"
    THEN Returned(outcome.status \in {200, 201, 202})
    ELSE Raised("TypeError")

\* A send_batch_results without its try/except; C18 must tell it from the
\* one of the code.
send_batch_results_unguarded(results, outcome) ==
    IF ~PayloadValid(results)
    THEN Raised("ValidationError")
    ELSE _send_webhook(outcome)

\* webhook_manager.py 35-60, once enabled: whatever is raised while the
\* payload is built or sent is caught and False is returned.
send_batch_results(results, outcome) ==
    IF ~PayloadValid(results)
    THEN Returned(FALSE)
    ELSE LET success == _send_webhook(outcome)
         IN  IF IsException(success) THEN Returned(FALSE) ELSE success

\* send_batch_results returns to the handler that awaits it (lines 156-157
\* and 249-250); the handler then returns the results (158-165, 252), or
\* what its except clause makes of an exception (185-191, 254-256).
WebhookReturns ==
    \E outcome \in WebhookOutcomes :
        /\ batch.pc = "webhook"
        /\ LET sent == send_batch_results(batch.results, outcome)
           IN  batch' =
                IF IsException(sent)
                THEN [batch EXCEPT !.pc = "done", !.webhook = outcome,
                                   !.status = IF batch.entry = "mcp"
                                              THEN "internal_error"
                                              ELSE "server_error"]
                ELSE [batch EXCEPT !.pc = "done", !.webhook = outcome,
                                   !.delivered = sent.returned,
                                   !.status = "ok"]
        /\ UNCHANGED <<config, phase, analyzer, redis, store_up, cache, rate, stats, completed, single, rl, ops>>

BatchRespond ==
    /\ batch.pc = "done"
    /\ batch' = IdleBatch
    /\ UNCHANGED <<config, phase, analyzer, redis, store_up, cache, rate, stats, completed, single, rl, ops>>

(***************************************************************************)
(* cache_manager.py: check_rate_limit and delete, called directly          *)
(***************************************************************************)

\* Line 107: without a client the call is allowed at once; else GET is
\* sent (line 112).  The call takes the first free place.
RlStart(c) ==
    \E id \in RateIdentifiers, limit \in 0..MaxLimit :
        /\ ops < MaxOps
        /\ rl[c].pc = "idle"
        /\ \A d \in 1..(c - 1) : rl[d].pc # "idle"
        /\ ops' = ops + 1
        /\ rl' = [d \in RlCallers |->
                    IF d # c
                    THEN [rl[d] EXCEPT !.overlapped =
                            @ \/ (redis # "none" /\ InProgress(rl[d]))]
                    ELSE IF redis = "none"
                    THEN [IdleRl EXCEPT !.pc = "done", !.identifier = id, !.limit = limit,
                                        !.reachable = FALSE, !.allowed = TRUE]
                    ELSE [IdleRl EXCEPT !.pc = "get", !.identifier = id, !.limit = limit,
                                        !.overlapped =
                                            \E e \in RlCallers \ {c} : InProgress(rl[e])]]
        /\ UNCHANGED <<config, phase, analyzer, redis, store_up, cache, rate, stats, completed, single, batch>>

\* Lines 112-121: the counter is read; an error allows (127-129).
RlGet(c) ==
    /\ rl[c].pc = "get"
    /\ rl' = [rl EXCEPT ![c] =
             IF ~store_up
             THEN [@ EXCEPT !.pc = "done", !.reachable = FALSE, !.allowed = TRUE]
             ELSE IF rate[@.identifier] = Nil
             THEN [@ EXCEPT !.pc = "setex"]
             ELSE IF rate[@.identifier].count >= @.limit
             THEN [@ EXCEPT !.pc = "done", !.current = rate[rl[c].identifier],
                            !.allowed = FALSE]
             ELSE [@ EXCEPT !.pc = "incr", !.current = rate[rl[c].identifier]]]
    /\ UNCHANGED <<config, phase, analyzer, redis, store_up, cache, rate, stats, completed, single, batch, ops>>

\* The requests the calls that ran SETEX or INCR on the counter were
\* allowed since the counter was created (kept beside the counter; the
\* code does not store it).
Granted(id) == IF rate[id] = Nil THEN 0 ELSE rate[id].granted

\* Lines 116-117: SETEX key window 1, whatever the key holds by now.
RlSetex(c) ==
    /\ rl[c].pc = "setex"
    /\ rate' = IF store_up
               THEN [rate EXCEPT ![rl[c].identifier] =
                        [expires |-> TRUE, count |-> 1,
                         granted |-> Granted(rl[c].identifier) + 1]]
               ELSE rate
    /\ rl' = [rl EXCEPT ![c] = [@ EXCEPT !.pc = "done", !.reachable = store_up,
                                         !.allowed = TRUE]]
    /\ UNCHANGED <<config, phase, analyzer, redis, store_up, cache, stats, completed, single, batch, ops>>

\* Lines 124-125: INCR key; on a key that has expired meanwhile INCR
\* creates it at 1, with no expiry.
RlIncr(c) ==
    /\ rl[c].pc = "incr"
    /\ rate' = IF ~store_up THEN rate
               ELSE IF rate[rl[c].identifier] = Nil
               THEN [rate EXCEPT ![rl[c].identifier] =
                        [expires |-> FALSE, count |-> 1, granted |-> 1]]
               ELSE [rate EXCEPT ![rl[c].identifier].count = @ + 1,
                                 ![rl[c].identifier].granted = @ + 1]
    /\ rl' = [rl EXCEPT ![c] = [@ EXCEPT !.pc = "done", !.reachable = store_up,
                                         !.allowed = TRUE]]
    /\ UNCHANGED <<config, phase, analyzer, redis, store_up, cache, stats, completed, single, batch, ops>>

RlReturn(c) ==
    /\ rl[c].pc = "done"
    /\ rl' = [rl EXCEPT ![c] = IdleRl]
    /\ UNCHANGED <<config, phase, analyzer, redis, store_up, cache, rate, stats, completed, single, batch, ops>>

\* Lines 90-100: DEL key, or nothing when the server does not answer.
CacheDelete ==
    \E k \in CacheKeys :
        /\ ops < MaxOps
        /\ ops' = ops + 1
        /\ cache' = IF redis # "none" /\ store_up THEN [cache EXCEPT ![k] = Nil] ELSE cache
        /\ UNCHANGED <<config, phase, analyzer, redis, store_up, rate, stats, completed, single, batch, rl>>

(***************************************************************************)
(* The specification                                                       *)
(***************************************************************************)

\* The Redis server and the start of the process.
Environment ==
    \/ StoreFails
    \/ StoreRecovers
    \/ Lifespan

\* Single-item requests and the cache they share.
NextSingle ==
    \/ Environment
    \/ CacheExpires
    \/ \E s \in Singles, news \in SingleNews : McpSingle(s, news)
    \/ \E s \in Singles : SingleGet(s)
    \/ \E s \in Singles : SingleLlm(s)
    \/ \E s \in Singles : SingleSet(s)
    \/ Restart

\* Batch requests of both entry points.
NextBatch ==
    \/ Environment
    \/ McpBatch
    \/ RestAnalyze
    \/ TaskRun
    \/ TaskLlm
    \/ Gather
    \/ WebhookReturns
    \/ BatchRespond

\* Direct calls of the cache manager.
NextCache ==
    \/ Environment
    \/ RateExpires
    \/ \E c \in RlCallers : RlStart(c)
    \/ \E c \in RlCallers : RlGet(c)
    \/ \E c \in RlCallers : RlSetex(c)
    \/ \E c \in RlCallers : RlIncr(c)
    \/ \E c \in RlCallers : RlReturn(c)
    \/ CacheDelete

(***************************************************************************)
(* The pure stages run alone, on inputs drawn from bounded sets            *)
(***************************************************************************)

\* The largest lexicon total drawn.
MaxScore == 60

\* The largest keyword confidence drawn (the scorer returns at most 85).
MaxConfidence == 90

\* The replies the parser is given: prose, broken JSON, and the objects
\* whose fields are each absent, well-formed or ill-formed.
ParseReplies ==
    {Prose, Broken}
        \cup {Object(impact, confidence, summary) :
                impact \in {Absent, JNull, JNum(1), JText("Bullish"),
                            JText("Positive"), JText("Negative")},
                confidence \in {Absent, JNull, JText("high"),
                                JNum(0 - 5), JNum(70), JNum(150)},
                summary \in {Absent, JNull, JText("sell-off")}}

\* The ends of a request whose body is one of these replies, and the ends
\* without a usable body.
ProbeOutcomes ==
    {Timeout, TransportError, NoChoices, Http(500, Prose),
     Http(429, Object(Absent, Absent, Absent))}
        \cup {Http(200, reply) : reply \in ParseReplies}

\* The texts given to the coin detection: the texts of the items, and texts
\* that name a coin twice, in capitals, inside a longer word, or not at all.
CoinTexts ==
    {TitlePlusSummary(news) : news \in WellTypedNews}
        \cup {<<"B","T","C"," ","a","n","d"," ","B","i","t","c","o","i","n">>,
              <<"b","i","t","c","o","i","n","s"," ","m","e","t","h","o","d">>,
              <<"E","t","h","e","r","e","u","m",","," ","S","O","L",":"," ","u","p">>,
              <<"d","o","t"," ","D","O","T"," ","P","o","l","k","a","d","o","t">>,
              <<>>}

Probes ==
    {[positive_score |-> p, negative_score |-> n, kind |-> "score", stage |-> "input"] :
        p \in 0..MaxScore, n \in 0..MaxScore}
    \cup
    {[kind |-> "text", news |-> news, stage |-> "input"] : news \in WellTypedNews}
    \cup
    {[confidence |-> c, kind |-> "policy", news |-> news, stage |-> "input"] :
        c \in 0..MaxConfidence, news \in WellTypedNews}
    \cup
    {[lang |-> lang, kind |-> "parse", reply |-> reply, stage |-> "input"] :
        reply \in ParseReplies, lang \in {"en", "ar"}}
    \cup
    {[kind |-> "llm", outcome |-> outcome, news |-> news, stage |-> "input"] :
        news \in WellTypedNews, outcome \in ProbeOutcomes}
    \cup
    {[text |-> text, kind |-> "coins", stage |-> "input"] : text \in CoinTexts}

InitPure ==
    /\ openai_key = FALSE
    /\ webhook_enabled = FALSE
    /\ store_up = TRUE
    /\ hash_seed = "seed_a"
    /\ probe \in Probes
    /\ Constructed

unprobed == <<openai_key, webhook_enabled, hash_seed, phase, analyzer, redis, store_up,
              cache, rate, stats, completed, single, batch, rl, ops>>

\* The item whose title, language and coins go with the drafts of the
\* score probes; its text holds no trigger term.
DraftNews == "Rally"

\* Lines 181-192 on a pair of totals, then the escalation test (194-209)
\* and the keyword verdict (150-163) on the draft.
DecideScores ==
    /\ probe.kind = "score"
    /\ probe.stage = "input"
    /\ probe' = [positive_score |-> probe.positive_score,
                 negative_score |-> probe.negative_score,
                 keyword_result |-> ImpactAndConfidence(probe.positive_score,
                                                        probe.negative_score),
                 kind |-> "score",
                 needs_llm |-> _needs_llm_analysis(
                                  ImpactAndConfidence(probe.positive_score,
                                                      probe.negative_score),
                                  FullText(DraftNews)),
                 verdict |-> KeywordResponse(DraftNews,
                                  ImpactAndConfidence(probe.positive_score,
                                                      probe.negative_score)),
                 stage |-> "output"]
    /\ UNCHANGED unprobed

\* _keyword_analysis on the text of an item (lines 165-192).
ScoreText ==
    /\ probe.kind = "text"
    /\ probe.stage = "input"
    /\ probe' = [positive_score |-> Score(positive_keywords, FullText(probe.news),
                                          Len(positive_keywords)),
                 negative_score |-> Score(negative_keywords, FullText(probe.news),
                                          Len(negative_keywords)),
                 keyword_result |-> _keyword_analysis(FullText(probe.news)),
                 kind |-> "text",
                 news |-> probe.news,
                 stage |-> "output"]
    /\ UNCHANGED unprobed

\* _needs_llm_analysis on a confidence and the text of an item (194-209).
DecideEscalation ==
    /\ probe.kind = "policy"
    /\ probe.stage = "input"
    /\ probe' = [confidence |-> probe.confidence, kind |-> "policy", news |-> probe.news,
                 needs_llm |-> _needs_llm_analysis(
                                  [impact |-> "Neutral", confidence |-> probe.confidence],
                                  FullText(probe.news)),
                 stage |-> "output"]
    /\ UNCHANGED unprobed

\* _parse_llm_response on a reply (lines 278-300).
ParseReply ==
    /\ probe.kind = "parse"
    /\ probe.stage = "input"
    /\ probe' = [lang |-> probe.lang, kind |-> "parse", reply |-> probe.reply,
                 result |-> _parse_llm_response(probe.reply, probe.lang),
                 stage |-> "output"]
    /\ UNCHANGED unprobed

\* Lines 140-163 with a key configured: the LLM stage ends in the outcome
\* and the final verdict is built.
DecideLlm ==
    /\ probe.kind = "llm"
    /\ probe.stage = "input"
    /\ LET llm_result == _llm_analysis(probe.outcome, Phase1[probe.news].lang)
       IN  probe' = [kind |-> "llm", outcome |-> probe.outcome, news |-> probe.news,
                     llm_result |-> llm_result,
                     verdict |-> FinalVerdict(probe.news, llm_result),
                     stage |-> "output"]
    /\ UNCHANGED unprobed

\* _detect_coins on a text (lines 302-312).
DetectCoins ==
    /\ probe.kind = "coins"
    /\ probe.stage = "input"
    /\ probe' = [text |-> probe.text, kind |-> "coins", stage |-> "output",
                 detected |-> _detect_coins(probe.text)]
    /\ UNCHANGED unprobed

NextPure ==
    \/ DetectCoins
    \/ DecideScores
    \/ ScoreText
    \/ DecideEscalation
    \/ ParseReply
    \/ DecideLlm

SpecPure == InitPure /\ [][NextPure]_vars

Next == NextSingle \/ NextBatch \/ NextCache

\* The whole program.
Spec == Init /\ [][Next]_vars

\* The three families touch disjoint parts of the state (a batch reads and
\* writes neither the cache nor the counters; check_rate_limit and delete
\* leave the requests alone), so each is also checked on its own.
SpecSingle == Init /\ [][NextSingle]_vars

SpecBatch == Init /\ [][NextBatch]_vars

SpecCache == Init /\ [][NextCache]_vars

\* The callers of one CacheManager in one process: single-item requests
\* (get and set) beside direct calls of delete and check_rate_limit.
NextStats ==
    \/ Environment
    \/ \E s \in Singles, news \in SingleNews : McpSingle(s, news)
    \/ \E s \in Singles : SingleGet(s)
    \/ \E s \in Singles : SingleLlm(s)
    \/ \E s \in Singles : SingleSet(s)
    \/ \E c \in RlCallers : RlStart(c)
    \/ \E c \in RlCallers : RlGet(c)
    \/ \E c \in RlCallers : RlSetex(c)
    \/ \E c \in RlCallers : RlIncr(c)
    \/ \E c \in RlCallers : RlReturn(c)
    \/ CacheDelete

SpecStats == Init /\ [][NextStats]_vars

\* The event loop runs every invocation that can run, every request to the
\* LLM ends (timeout=10, line 243), and gather returns once its
\* invocations are done.
SpecBatchLive ==
    /\ SpecBatch
    /\ WF_vars(TaskRun)
    /\ WF_vars(TaskLlm)
    /\ WF_vars(Gather)

(***************************************************************************)
(* Properties of the pure stages (checked under SpecPure)                  *)
(***************************************************************************)

Min(a, b) == IF a < b THEN a ELSE b

Abs(a) == IF a < 0 THEN 0 - a ELSE a

\* C7: for every pair of lexicon totals, _keyword_analysis returns a
\* confidence in [0,85]; the impact is Positive iff positive_score >
\* negative_score and positive_score > 5, with confidence
\* min(2*positive_score, 100) capped at 85; Negative iff negative_score >
\* positive_score and negative_score > 5, symmetrically; and otherwise
\* Neutral with confidence 40 + |positive_score - negative_score|.
C7_KeywordDecision ==
    (probe.kind \in {"score", "text"} /\ probe.stage = "output") =>
        LET p == probe.positive_score
            n == probe.negative_score
            r == probe.keyword_result
        IN  /\ r.confidence \in 0..85
            /\ r.impact \in {"Positive", "Negative", "Neutral"}
            /\ (r.impact = "Positive") <=> (p > n /\ p > 5)
            /\ (r.impact = "Negative") <=> (n > p /\ n > 5)
            /\ (r.impact = "Positive") => r.confidence = Min(Min(2 * p, 100), 85)
            /\ (r.impact = "Negative") => r.confidence = Min(Min(2 * n, 100), 85)
            /\ (r.impact = "Neutral") => r.confidence = 40 + Abs(p - n)

\* A pair of totals past the cap is decided (50 against 3: Positive, 85),
\* and so is a tie above 5 (Neutral, 40) in another run.
C7_Witness ==
    /\ probe.kind = "score"
    /\ probe.stage = "output"
    /\ probe.positive_score = 50
    /\ probe.negative_score = 3
    /\ probe.keyword_result = [impact |-> "Positive", confidence |-> 85]

\* The trigger terms, as the claim lists them.
TriggerTerms ==
    {<<"r","e","g","u","l","a","t","i","o","n">>, <<"b","a","n">>,
     <<"a","p","p","r","o","v","a","l">>, <<"e","t","f">>, <<"s","e","c">>,
     <<"h","a","c","k">>}

HasTriggerTerm(news) ==
    \E term \in TriggerTerms : Contains(FullText(news), term)

\* C9: _needs_llm_analysis returns true iff the keyword confidence is below
\* 60 or the lowercased text contains one of the trigger terms as a raw
\* substring; without a trigger term it returns true for 59 and false for
\* 60, and with a trigger term it returns true for every confidence.
C9_EscalationRule ==
    (probe.kind = "policy" /\ probe.stage = "output") =>
        /\ probe.needs_llm <=> (probe.confidence < 60 \/ HasTriggerTerm(probe.news))
        /\ (~HasTriggerTerm(probe.news) /\ probe.confidence = 59) => probe.needs_llm
        /\ (~HasTriggerTerm(probe.news) /\ probe.confidence = 60) => ~probe.needs_llm
        /\ HasTriggerTerm(probe.news) => probe.needs_llm

\* The policy was asked about confidence 60 on a text without a trigger
\* term and declined.
C9_Witness ==
    /\ probe.kind = "policy"
    /\ probe.stage = "output"
    /\ probe.confidence = 60
    /\ probe.news = "Rally"
    /\ ~HasTriggerTerm("Rally")
    /\ ~probe.needs_llm

(***************************************************************************)
(* Properties of batch requests (checked under SpecBatch)                  *)
(***************************************************************************)

\* The verdicts the pipeline can return for a well-typed item: the keyword
\* verdict, or the verdict of a reply the LLM stage accepted.
NormalVerdicts(news) ==
    {AsDict(KeywordVerdict(news))}
        \cup {AsDict(LlmVerdict(news, _llm_analysis(outcome, Phase1[news].lang))) :
                outcome \in {o \in LlmOutcomes :
                                _llm_analysis(o, Phase1[news].lang) # None}}

\* The placeholder of the claim C2, with some message.
IsPlaceholder(entry) ==
    /\ entry.impact = "Neutral"
    /\ entry.confidence = 0
    /\ entry.affected_coins = {}
    /\ entry.summary.text = "Analysis failed"
    /\ entry.lang = "en"
    /\ entry.error # None

\* The item cannot be processed: it is no mapping, or a field is no string.
Faulty(item) == item.shape = "not_mapping" \/ ~WellTyped(item.news)

\* entry is what the batch owes to item: its verdict, or the placeholder
\* when the item's processing fails.
IsEntryFor(entry, item) ==
    IF Faulty(item) THEN IsPlaceholder(entry) ELSE entry \in NormalVerdicts(item.news)

\* C1: for every batch of K items (1 <= K <= 50) submitted through either
\* batch entry point (MCP tools/call with "news", or REST /analyze),
\* analyze_batch returns exactly K entries and entry i is the verdict for
\* item i, whichever items fail.  (A request the REST validation rejects
\* never reaches analyze_batch.)
C1_OneEntryPerItemInOrder ==
    (/\ batch.pc = "done"
     /\ Len(batch.items) \in 1..MaxItems
     /\ batch.status # "validation_error") =>
        /\ batch.status = "ok"
        /\ Len(batch.results) = Len(batch.items)
        /\ \A i \in 1..Len(batch.items) : IsEntryFor(batch.results[i], batch.items[i])

\* A valid REST batch of one well-formed item ended in a server error with
\* no entries.
C1_Witness ==
    /\ batch.pc = "done"
    /\ batch.entry = "rest"
    /\ Len(batch.items) = 1
    /\ batch.items[1].news = "Rally"
    /\ batch.status = "server_error"
    /\ batch.results = <<>>

\* C2: in analyze_batch, when the processing of one item fails (including a
\* fault raised while its invocation is launched, such as an item that is
\* not a mapping), the item's position holds the placeholder {Neutral, 0,
\* [], "Analysis failed", en, error}, every other position holds its normal
\* verdict, and the batch is never aborted.
C2_ItemFaultIsIsolated ==
    (/\ batch.pc = "done"
     /\ batch.entry = "mcp"
     /\ \E i \in 1..Len(batch.items) : Faulty(batch.items[i])) =>
        /\ batch.status = "ok"
        /\ Len(batch.results) = Len(batch.items)
        /\ \A i \in 1..Len(batch.items) :
            /\ Faulty(batch.items[i]) => IsPlaceholder(batch.results[i])
            /\ ~Faulty(batch.items[i]) =>
                    batch.results[i] \in NormalVerdicts(batch.items[i].news)

\* An MCP batch of a well-formed item and an item that is no mapping ended
\* in an internal error with no entries at all.
C2_Witness ==
    /\ batch.pc = "done"
    /\ batch.entry = "mcp"
    /\ Len(batch.items) = 2
    /\ batch.items[1] = [news |-> "Rally", shape |-> "mapping"]
    /\ batch.items[2].shape = "not_mapping"
    /\ batch.status = "internal_error"
    /\ batch.results = <<>>

\* C6: the per-item pipeline is the same in single and batch mode: for every
\* item of a batch, processing starts with a cache lookup under the key of
\* title+summary and ends by storing the final verdict in the cache.  With
\* the store reachable all along, each lookup is counted in the statistics
\* and each verdict returned is in the cache under the item's key.
C6_BatchItemsGoThroughTheCache ==
    (/\ batch.pc = "done"
     /\ batch.status = "ok"
     /\ ~batch.outage) =>
        \A i \in 1..Len(batch.items) :
            WellTyped(batch.items[i].news) =>
                /\ stats.total >= 1
                /\ cache[cache_key(batch.items[i].news)] = JsonDumps(batch.results[i])

\* A batch of one well-formed item was answered with the store reachable
\* all along, and the cache was neither asked nor written.
C6_Witness ==
    /\ batch.pc = "done"
    /\ batch.status = "ok"
    /\ ~batch.outage
    /\ Len(batch.items) = 1
    /\ batch.items[1].news = "Rally"
    /\ batch.results[1] = AsDict(KeywordVerdict("Rally"))
    /\ stats.total = 0
    /\ cache[cache_key("Rally")] = Nil


\* The item was decided by the keyword path: it was not escalated, or it
\* was and the LLM stage had no credential or no usable HTTP reply.
OnKeywordPath(task) == task.llm \in {"skipped", "no_key", "down"}

\* C8: every verdict built on the keyword path (no escalation, or
\* escalation with the LLM unavailable) has confidence = min(raw keyword
\* confidence, 75), the keyword impact, and low_confidence = TRUE exactly
\* when the raw keyword confidence is below 60; every verdict of any path,
\* and every entry of a batch, has its confidence within [0,100].
C8_KeywordVerdictIsCapped ==
    /\ \A i \in 1..Len(batch.tasks) :
        LET task == batch.tasks[i]
        IN  (task.pc = "done" /\ ~IsException(task.outcome)) =>
                /\ task.outcome.confidence \in 0..100
                /\ OnKeywordPath(task) =>
                    LET raw == Phase1[batch.items[i].news].keyword_result
                    IN  /\ task.outcome.confidence = Min(raw.confidence, 75)
                        /\ task.outcome.impact = raw.impact
                        /\ task.outcome.low_confidence <=> (raw.confidence < 60)
    /\ \A i \in 1..Len(batch.results) : batch.results[i].confidence \in 0..100

\* An item escalated for a trigger term with raw confidence 80, the LLM
\* unavailable: confidence 75, low_confidence FALSE.
C8_Witness ==
    \E i \in 1..Len(batch.tasks) :
        /\ batch.items[i].news = "Bank"
        /\ Phase1["Bank"].keyword_result = [impact |-> "Negative", confidence |-> 80]
        /\ batch.tasks[i].pc = "done"
        /\ batch.tasks[i].llm = "down"
        /\ batch.tasks[i].outcome.impact = "Negative"
        /\ batch.tasks[i].outcome.confidence = 75
        /\ ~batch.tasks[i].outcome.low_confidence

(***************************************************************************)
(* Properties of single-item requests (checked under SpecSingle)           *)
(***************************************************************************)

\* The request passed the check of title and summary and has a verdict.
HasVerdict(call) == call.pc \in {"ready", "done"} /\ call.status # "client_error"

\* C3: for every escalated item, whenever the LLM stage is unavailable
\* (credential absent, non-200 status, transport failure, timeout or
\* unparseable reply), the pipeline raises nothing and returns the
\* keyword-based verdict; analyze_single and _analyze_news_item always
\* return some verdict for a well-formed (title, summary).
C3_LlmUnavailableFallsBack ==
    \A s \in Singles :
        LET call == single[s]
        IN  /\ (HasVerdict(call) /\ call.scored /\ call.llm \in {"no_key", "down"}) =>
                /\ Phase1[call.news].needs_llm
                /\ call.result = KeywordVerdict(call.news)
            /\ (call.pc = "done" /\ WellTyped(call.news)) =>
                /\ call.status = "ok"
                /\ call.result # None
                /\ call.result.impact \in ImpactType
                /\ call.result.error = None

\* An escalated item whose request to the LLM found it unavailable was
\* answered with its keyword verdict.
C3_Witness ==
    \E s \in Singles :
        /\ single[s].pc = "done"
        /\ single[s].news = "Scenario1"
        /\ openai_key
        /\ single[s].llm = "down"
        /\ single[s].llm_calls = 1
        /\ single[s].status = "ok"
        /\ single[s].result = KeywordVerdict("Scenario1")
        /\ single[s].result.confidence = 36

\* C4: whenever the cache store is unreachable (never connected,
\* unreachable at process start, or lost after a successful connect), cache
\* get returns a miss, set and delete are no-ops, check_rate_limit returns
\* allowed for every identifier, and an analysis request still completes
\* with a verdict computed without cached results.  A process whose start
\* found the store unreachable must then be running with its analyzer.
C4_UnreachableStoreIsTolerated ==
    /\ (phase # "starting") => (phase = "running" /\ analyzer = "ready")
    /\ \A s \in Singles :
        LET call == single[s]
        IN  (HasVerdict(call) /\ ~call.reachable) =>
                /\ call.scored
                /\ call.pc = "done" => (call.status = "ok" /\ call.result # None)
    /\ \A c \in RlCallers : (rl[c].pc = "done" /\ ~rl[c].reachable) => rl[c].allowed

\* The start found the store unreachable: there is no analyzer and the
\* process serves no request.
C4_Witness ==
    /\ phase = "failed"
    /\ ~store_up
    /\ analyzer = "none"
    /\ \A s \in Singles : single[s].pc = "idle"

\* C5: after analyze_single(title, summary) has completed with the store
\* available, every later analyze_single with the same title+summary
\* before the TTL expires returns a verdict equal to the stored one and
\* performs no keyword scoring, no LLM call and no cache write, whatever
\* the LLM would answer now.
C5_CacheHitReturnsStoredVerdict ==
    \A s \in Singles :
        LET call == single[s]
        IN  (/\ call.pc \in {"llm", "ready", "done"}
             /\ call.status # "client_error"
             /\ call.reachable
             /\ call.fresh # None) =>
                /\ call.pc = "done"
                /\ call.status = "ok"
                /\ call.result = call.fresh
                /\ ~call.scored
                /\ call.llm_calls = 0
                /\ call.cache_writes = 0

\* An item was analysed and stored, the process was restarted, and the
\* next request for the same item, with the store reachable and the entry
\* still in it, was scored and stored again.
C5_Witness ==
    \E s \in Singles :
        /\ single[s].pc = "done"
        /\ single[s].news = "Rally"
        /\ single[s].reachable
        /\ single[s].fresh = KeywordVerdict("Rally")
        /\ cache[Key("seed_a", "Rally")] # Nil
        /\ hash_seed = "seed_b"
        /\ single[s].scored
        /\ single[s].cache_writes = 1

\* C10: for every item, the LLM endpoint is called at most once and never
\* retried; it is called only if the escalation policy returned true for
\* the item and an API credential is configured, and never for an item
\* answered from the cache.
C10_LlmCalledAtMostOnce ==
    \A s \in Singles :
        LET call == single[s]
        IN  /\ call.llm_calls <= 1
            /\ call.llm_calls > 0 =>
                /\ call.news \in WellTypedNews
                /\ Phase1[call.news].needs_llm
                /\ openai_key
                /\ call.scored
            /\ (call.pc = "done" /\ call.status = "ok" /\ ~call.scored) =>
                call.llm_calls = 0

\* An escalated item was answered after one call with a key configured,
\* while an item that is not escalated was answered without any call.
C10_Witness ==
    \E s, t \in Singles :
        /\ single[s].pc = "done"
        /\ single[s].news = "Scenario1"
        /\ single[s].llm = "replied"
        /\ single[s].llm_calls = 1
        /\ single[t].pc = "done"
        /\ single[t].news = "Rally"
        /\ single[t].scored
        /\ single[t].llm_calls = 0


(***************************************************************************)
(* Properties of the LLM stage (checked under SpecPure)                    *)
(***************************************************************************)

Clamp(n) == IF n < 0 THEN 0 ELSE IF n > 100 THEN 100 ELSE n

\* C11: when the LLM stage returns a usable verdict, the final verdict
\* carries the LLM's impact, the LLM's confidence clamped to [0,100] (not
\* capped at 75), the LLM's summary, the language the pipeline detected,
\* low_confidence = FALSE, and the coins the pipeline detected (none when
\* it detected none).
C11_LlmVerdictIsFinal ==
    (probe.kind = "llm" /\ probe.stage = "output" /\ probe.llm_result # None) =>
        LET reply == probe.outcome.reply
            v     == probe.verdict
        IN  /\ reply.impact.type # "absent" => v.impact = reply.impact.value
            /\ reply.confidence.type # "absent" =>
                    v.confidence = Clamp(reply.confidence.value)
            /\ reply.summary.type # "absent" => v.summary.text = reply.summary.value
            /\ v.summary.template = "llm"
            /\ v.lang = DetectLang(TitlePlusSummary(probe.news))
            /\ v.low_confidence = FALSE
            /\ v.affected_coins = _detect_coins(TitlePlusSummary(probe.news))
            /\ v.error = None

\* An Arabic item that names BTC, whose keyword verdict would be Positive,
\* got the LLM's Negative with 150 clamped to 100, lang ar and the coin BTC.
C11_Witness ==
    /\ probe.kind = "llm"
    /\ probe.stage = "output"
    /\ probe.news = "Arabic"
    /\ probe.outcome = Http(200, Object(JText("Negative"), JNum(150), JText("sell-off")))
    /\ probe.llm_result # None
    /\ probe.verdict.impact = "Negative"
    /\ probe.verdict.confidence = 100
    /\ probe.verdict.lang = "ar"
    /\ probe.verdict.affected_coins = {"BTC"}
    /\ ~probe.verdict.low_confidence


\* The three required fields of a reply are present and valid.
RequiredFieldsValid(reply) ==
    /\ reply.impact.type = "string"
    /\ reply.impact.value \in ImpactType
    /\ reply.confidence.type = "number"
    /\ reply.summary.type = "string"

\* C12: _parse_llm_response returns None whenever the reply holds no JSON
\* object or one of impact, confidence, summary is missing or invalid, and
\* returns a verdict only when all three are present and valid, with the
\* impact in {Positive, Negative, Neutral}.
C12_ParseRequiresAllFields ==
    (probe.kind = "parse" /\ probe.stage = "output") =>
        /\ (probe.result # None) <=>
                (probe.reply.kind = "object" /\ RequiredFieldsValid(probe.reply))
        /\ probe.result # None => probe.result.impact \in ImpactType

\* The reply {} was parsed into a verdict made of the three defaults.
C12_Witness ==
    /\ probe.kind = "parse"
    /\ probe.stage = "output"
    /\ probe.reply = Object(Absent, Absent, Absent)
    /\ probe.result # None
    /\ probe.result.impact = "Neutral"
    /\ probe.result.confidence = 50
    /\ probe.result.summary.text = "Analysis completed"


(***************************************************************************)
(* Validation of batch requests (checked under SpecBatch)                  *)
(***************************************************************************)

ClientErrors == {"client_error", "validation_error"}

\* C13: a batch with 0 items or more than 50 items is rejected with a
\* client error before any pipeline invocation starts, on every batch
\* entry point.
C13_BatchSizeIsBounded ==
    (batch.pc # "idle" /\ (Len(batch.items) = 0 \/ Len(batch.items) > MaxItems)) =>
        /\ batch.pc = "done"
        /\ batch.status \in ClientErrors
        /\ batch.tasks = <<>>
        /\ batch.results = <<>>

\* An MCP batch of 51 items was analysed and answered with 51 verdicts.
C13_Witness ==
    /\ batch.entry = "mcp"
    /\ Len(batch.items) = MaxItems + 1
    /\ batch.pc = "done"
    /\ batch.status = "ok"
    /\ Len(batch.results) = MaxItems + 1
    /\ \A i \in 1..Len(batch.results) : batch.results[i] \in NormalVerdicts("Rally")

\* The title or the summary of the item is missing or empty.
Blank(news) ==
    ~Truthy(NewsCatalog[news].title) \/ ~Truthy(NewsCatalog[news].summary)

\* C14: a batch holding an item whose title or summary is missing or empty
\* is rejected as a client error before any pipeline work begins: no
\* invocation is created for any of its items, so nothing is scored, no LLM
\* call is made and no verdict is returned.
C14_InvalidItemIsRejected ==
    (/\ batch.pc # "idle"
     /\ \E i \in 1..Len(batch.items) :
            batch.items[i].shape # "not_mapping" /\ Blank(batch.items[i].news)) =>
        /\ batch.pc = "done"
        /\ batch.status \in ClientErrors
        /\ batch.tasks = <<>>
        /\ batch.results = <<>>

\* An MCP batch whose only item has an empty summary was sent to the LLM
\* and answered with a verdict.
C14_Witness ==
    /\ batch.entry = "mcp"
    /\ batch.items = <<[news |-> "EmptySummary", shape |-> "mapping"]>>
    /\ batch.pc = "done"
    /\ batch.status = "ok"
    /\ batch.tasks[1].llm_calls = 1
    /\ batch.results[1] \in NormalVerdicts("EmptySummary")


(***************************************************************************)
(* Rate limits                                                             *)
(***************************************************************************)

\* C15: every analysis request is checked with check_rate_limit for the
\* caller's identifier before pipeline work begins: once a request whose
\* cache lookup reached the store has been scored, check_rate_limit has run
\* and the store holds a rate-limit counter.
C15_RequestsAreRateLimited ==
    \A s \in Singles :
        (single[s].scored /\ single[s].reachable) =>
            \/ \E c \in RlCallers : rl[c].pc # "idle"
            \/ \E id \in RateIdentifiers : rate[id] # Nil

\* Both calls of one process were analysed with the store reachable; no
\* rate-limit check ran and no counter exists.
C15_Witness ==
    /\ \A s \in Singles :
        /\ single[s].pc = "done"
        /\ single[s].status = "ok"
        /\ single[s].scored
        /\ single[s].reachable
    /\ \A c \in RlCallers : rl[c] = IdleRl
    /\ \A id \in RateIdentifiers : rate[id] = Nil


\* The value of the counter of an identifier, 0 when it has none.
Count(id) == IF rate[id] = Nil THEN 0 ELSE rate[id].count

\* The call c of check_rate_limit returns in this step, having reached the
\* store, and no other call ran while it did.
RlCompletes(c) ==
    /\ InProgress(rl[c])
    /\ rl'[c].pc = "done"
    /\ ~rl[c].overlapped
    /\ redis # "none"
    /\ store_up

\* C16: with the store available and the calls for one identifier issued
\* one after another, a call that finds fewer than `limit` requests counted
\* in the window is allowed and leaves the counter one higher, carrying the
\* window expiry (created at 1 by the first request of a window); a call
\* that finds `limit` requests counted is denied and leaves the counter as
\* it is.
C16_CounterAllowsExactlyLimit ==
    [][\A c \in RlCallers :
        RlCompletes(c) =>
            LET id == rl[c].identifier
            IN  /\ rl'[c].allowed = (Count(id) < rl[c].limit)
                /\ IF Count(id) < rl[c].limit
                   THEN /\ rate'[id] # Nil
                        /\ rate'[id].count = Count(id) + 1
                        /\ rate'[id].expires
                   ELSE rate'[id] = rate[id]]_vars

\* A call read the counter below the limit, the window ran out before the
\* increment, and the call returned allowed leaving a counter at 1 that
\* carries no expiry.
C16_Witness ==
    /\ rl[1].pc = "done"
    /\ rl[1].allowed
    /\ rl[1].reachable
    /\ rl[1].current # Nil
    /\ ~rl[1].overlapped
    /\ rate[rl[1].identifier] # Nil
    /\ rate[rl[1].identifier].count = 1
    /\ ~rate[rl[1].identifier].expires

\* C17: every rate-limit counter present in the store carries an expiry at
\* its window boundary, under any interleaving of check_rate_limit calls
\* and key expiry.
C17_EveryCounterExpires ==
    \A id \in RateIdentifiers : rate[id] # Nil => rate[id].expires

\* No call is running and the store holds a counter that never expires.
C17_Witness ==
    /\ \A c \in RlCallers : rl[c] = IdleRl
    /\ \E id \in RateIdentifiers : rate[id] # Nil /\ ~rate[id].expires


(***************************************************************************)
(* Webhook delivery (checked under SpecBatch)                              *)
(***************************************************************************)

\* C18: a webhook delivery failure of any kind never fails the analysis
\* response: once a delivery was attempted and has ended, whatever it ended
\* in, the request is answered successfully with the results the gathering
\* produced, the same as after a successful delivery.
C18_WebhookFailureIsNotSurfaced ==
    (batch.pc = "done" /\ batch.webhook_attempts > 0) =>
        /\ batch.status = "ok"
        /\ batch.results = processed_results(batch.tasks)
        /\ batch.delivered =
                (batch.webhook.kind = "http" /\ batch.webhook.status \in {200, 201, 202})

\* A delivery that timed out: the batch was answered with its results.
C18_Witness ==
    /\ batch.pc = "done"
    /\ batch.webhook_attempts = 1
    /\ batch.webhook = Timeout
    /\ ~batch.delivered
    /\ batch.status = "ok"
    /\ Len(batch.results) = 2
    /\ batch.results = processed_results(batch.tasks)


\* The request carries 1 to 50 items, each an object with a title and a
\* summary that are not blank.
ValidBatch ==
    /\ Len(batch.items) \in 1..MaxItems
    /\ \A i \in 1..Len(batch.items) :
        /\ batch.items[i].shape # "not_mapping"
        /\ ~Blank(batch.items[i].news)

\* C19: with a webhook URL configured, exactly one delivery attempt is made
\* for each batch of an MCP or REST request (a REST batch of one item
\* included): never more than one, none before all of the batch's items
\* have their verdicts, and a valid batch that has been answered had its
\* one attempt.
C19_OneDeliveryPerBatch ==
    webhook_enabled =>
        /\ batch.webhook_attempts <= 1
        /\ batch.webhook_attempts > 0 =>
                /\ \A i \in 1..Len(batch.tasks) : batch.tasks[i].pc = "done"
                /\ Len(batch.results) = Len(batch.items)
        /\ (batch.pc = "done" /\ ValidBatch) => batch.webhook_attempts = 1

\* A valid REST batch of one item, webhook configured: answered with a
\* server error, no delivery attempted.
C19_Witness ==
    /\ webhook_enabled
    /\ batch.entry = "rest"
    /\ batch.items = <<[news |-> "Rally", shape |-> "model"]>>
    /\ batch.pc = "done"
    /\ batch.status = "server_error"
    /\ batch.webhook_attempts = 0

\* C20: webhook delivery is fire-and-forget: while the delivery attempt is
\* in flight the response of the batch has already been returned.
C20_ResponseDoesNotWaitForWebhook ==
    batch.pc = "webhook" => batch.status = "ok"

\* The delivery is in flight, all verdicts are there, and the request is
\* not answered yet.
C20_Witness ==
    /\ batch.pc = "webhook"
    /\ batch.webhook_attempts = 1
    /\ batch.status = "none"
    /\ Len(batch.results) = 2
    /\ batch.results = processed_results(batch.tasks)


\* C21: for every result list passed to the webhook, positive + negative +
\* neutral = the number of items, high_confidence + low_confidence = the
\* number of items with high counting the confidences above 75, and errors
\* = the number of failure placeholders of the batch.
C21_SummaryStatsTally ==
    batch.webhook_attempts > 0 =>
        LET st    == batch.summary_stats
            total == Len(batch.results)
            Above == {i \in 1..total : batch.results[i].confidence > 75}
            Fails == {i \in 1..total : IsException(batch.tasks[i].outcome)}
        IN  /\ st.positive + st.negative + st.neutral = total
            /\ st.high_confidence + st.low_confidence = total
            /\ st.high_confidence = Cardinality(Above)
            /\ st.errors = Cardinality(Fails)
            /\ \A i \in 1..total : (i \in Fails) <=> IsPlaceholder(batch.results[i])

\* A batch of a failed item and an item the keyword path answered with
\* confidence 75 was passed to the webhook: one error, nothing high.
C21_Witness ==
    /\ batch.webhook_attempts = 1
    /\ Len(batch.results) = 2
    /\ IsException(batch.tasks[1].outcome)
    /\ batch.results[2].confidence = 75
    /\ batch.summary_stats.errors = 1
    /\ batch.summary_stats.high_confidence = 0
    /\ batch.summary_stats.low_confidence = 2
    /\ batch.summary_stats.neutral = 1


(***************************************************************************)
(* The scenario of the first example (checked under SpecPure)              *)
(***************************************************************************)

\* C22: for the title "Bitcoin surges past new high" and the summary
\* "Bullish momentum continues", which hold no trigger term, the keyword
\* scan gives a positive score above 5 and the impact Positive with a
\* keyword confidence of at least 60, the item is not escalated, and the
\* final verdict has a confidence of at most 75, low_confidence = FALSE and
\* BTC among its coins.
C22_ScenarioOneIsConfidentlyPositive ==
    (probe.kind = "text" /\ probe.stage = "output" /\ probe.news = "Scenario1") =>
        /\ ~HasTriggerTerm("Scenario1")
        /\ probe.positive_score > 5
        /\ probe.keyword_result.impact = "Positive"
        /\ probe.keyword_result.confidence >= 60
        /\ ~_needs_llm_analysis(probe.keyword_result, FullText("Scenario1"))
        /\ KeywordVerdict("Scenario1").confidence <= 75
        /\ ~KeywordVerdict("Scenario1").low_confidence
        /\ "BTC" \in KeywordVerdict("Scenario1").affected_coins

\* The scan of the scenario: "new high" and "Bullish" score 18, "surges"
\* scores nothing, the confidence is 36 and the item is escalated; the
\* verdict of the keyword path is flagged low_confidence.
C22_Witness ==
    /\ probe.kind = "text"
    /\ probe.stage = "output"
    /\ probe.news = "Scenario1"
    /\ ~HasTriggerTerm("Scenario1")
    /\ probe.positive_score = 18
    /\ probe.negative_score = 0
    /\ probe.keyword_result = [impact |-> "Positive", confidence |-> 36]
    /\ _needs_llm_analysis(probe.keyword_result, FullText("Scenario1"))
    /\ KeywordVerdict("Scenario1").confidence = 36
    /\ KeywordVerdict("Scenario1").low_confidence
    /\ KeywordVerdict("Scenario1").affected_coins = {"BTC"}


(***************************************************************************)
(* Coin detection (checked under SpecPure)                                 *)
(***************************************************************************)

\* The canonical symbols of crypto_patterns.
Symbols == {crypto_patterns[j].coin : j \in 1..Len(crypto_patterns)}

\* C23: _detect_coins returns a set of canonical uppercase symbols: a
\* symbol is in the result iff one of its aliases occurs in the text as a
\* word, whatever the case of its letters, so a text mentioning both BTC
\* and bitcoin yields BTC once; the affected_coins of a verdict are
\* canonical symbols too.
C23_CoinsAreCanonical ==
    /\ (probe.kind = "coins" /\ probe.stage = "output") =>
        /\ probe.detected \subseteq Symbols
        /\ \A j \in 1..Len(crypto_patterns) :
            (crypto_patterns[j].coin \in probe.detected) <=>
                (\E alias \in crypto_patterns[j].aliases :
                    WordMatchesIgnoreCase(probe.text, alias) # {})
    /\ (probe.kind = "llm" /\ probe.stage = "output") =>
        probe.verdict.affected_coins \subseteq Symbols

\* "BTC and Bitcoin" names the coin by both aliases, in capitals: the
\* result is BTC, once.
C23_Witness ==
    /\ probe.kind = "coins"
    /\ probe.stage = "output"
    /\ probe.text = <<"B","T","C"," ","a","n","d"," ","B","i","t","c","o","i","n">>
    /\ probe.detected = {"BTC"}
    /\ Cardinality(probe.detected) = 1


(***************************************************************************)
(* Progress of a batch (checked under SpecBatchLive)                       *)
(***************************************************************************)

\* C24: every analyze_batch call eventually returns; an invocation
\* finishes without suspending or suspends on one LLM request only, and no
\* item waits on another item: whatever the other invocations are doing,
\* an invocation that waits for the LLM can take its reply.
C24_BatchEventuallyReturns ==
    /\ (batch.pc = "gather") ~> (batch.pc # "gather")
    /\ [](batch.pc = "gather" =>
            \A i \in 1..Len(batch.tasks) :
                /\ batch.tasks[i].pc \in {"pending", "llm", "done"}
                /\ batch.tasks[i].llm_calls <= 1
                /\ batch.tasks[i].pc = "llm" =>
                        ENABLED (TaskLlm /\ batch'.tasks[i].pc = "done"))

\* The second item has its LLM verdict while the first still waits for
\* its reply.
C24_Witness ==
    /\ batch.pc = "gather"
    /\ Len(batch.tasks) = 2
    /\ batch.tasks[1].pc = "llm"
    /\ batch.tasks[2].pc = "done"
    /\ batch.tasks[2].llm_calls = 1


\* C25: under any interleaving of concurrent check_rate_limit calls for
\* one identifier with the store available, the calls allowed within one
\* window never exceed the limit and no allowed request is lost from the
\* count: the counter equals the number of requests allowed since it was
\* created, and a call that returns allowed with limit L is at most the
\* L-th of them.
C25_ConcurrentCallsRespectLimit ==
    /\ \A id \in RateIdentifiers : rate[id] # Nil => rate[id].count = Granted(id)
    /\ \A c \in RlCallers :
        (rl[c].pc = "done" /\ rl[c].allowed /\ rl[c].reachable) =>
            Granted(rl[c].identifier) <= rl[c].limit

\* Two calls with limit 1 overlapped: both found no counter, both created
\* it and both returned allowed; the counter stands at 1 for 2 requests.
C25_Witness ==
    /\ \A c \in {1, 2} :
        /\ rl[c].pc = "done"
        /\ rl[c].identifier = "alice"
        /\ rl[c].limit = 1
        /\ rl[c].allowed
        /\ rl[c].reachable
        /\ rl[c].overlapped
    /\ rate["alice"] # Nil
    /\ rate["alice"].count = 1
    /\ rate["alice"].granted = 2
    /\ rate["alice"].expires


(***************************************************************************)
(* Overlapping single-item requests (checked under SpecSingle)             *)
(***************************************************************************)

\* The call in place s returns a verdict in this step while the call in a
\* lower place, for the same title and summary, has returned its own.  A
\* place is taken only while every lower place is busy, so the two calls
\* overlapped: the later started before the earlier had stored its verdict.
ReturnsAfterOverlap(s, t) ==
    /\ t < s
    /\ single[s].pc \in {"get", "ready"}
    /\ single'[s].pc = "done"
    /\ single'[s].status = "ok"
    /\ single[t].pc = "done"
    /\ single[t].status = "ok"
    /\ Digest[single[t].news] = Digest[single[s].news]

\* C26: two analyze_single calls with the same title + summary that overlap
\* in time return the same verdict, that verdict is the one left in the
\* cache, and the LLM is called at most once for the item.
C26_OverlappingCallsAgree ==
    [][\A s, t \in Singles :
        ReturnsAfterOverlap(s, t) =>
            LET key == cache_key(single[s].news)
            IN  /\ single'[s].result = single[t].result
                /\ cache'[key] # Nil =>
                        FromCache(JsonLoads(cache'[key])) = single[t].result
                /\ single'[s].llm_calls + single[t].llm_calls <= 1]_vars

\* Two calls for the same item wait for the LLM at the same time.
C26_Witness ==
    /\ single[1].pc = "llm"
    /\ single[2].pc = "llm"
    /\ single[1].news = single[2].news
    /\ single[1].llm_calls = 1
    /\ single[2].llm_calls = 1


(***************************************************************************)
(* The counters of the cache manager (checked under SpecStats)             *)
(***************************************************************************)

\* A get of some single-item request is answered by the store in this step.
GetIsAnswered ==
    \E s \in Singles :
        /\ single[s].pc = "get"
        /\ single'[s].pc # "get"
        /\ redis # "none"
        /\ store_up

\* C27: in every reachable state hits + misses = total, under any
\* interleaving of concurrent gets; the counters change only when a get is
\* answered by the store, and then by one hit or one miss: a get that fails
\* or runs with no connection, and set, delete and check_rate_limit, leave
\* all three as they are.
C27_StatsAreConsistent ==
    /\ [](stats.hits + stats.misses = stats.total)
    /\ [][/\ stats' # stats => GetIsAnswered
          /\ GetIsAnswered =>
                /\ stats'.total = stats.total + 1
                /\ stats'.hits + stats'.misses = stats.hits + stats.misses + 1
                /\ stats'.hits >= stats.hits
                /\ stats'.misses >= stats.misses]_vars

\* Two overlapping requests wait for the LLM: the get of the first was
\* answered with a miss, the get of the second found the store
\* unreachable.  One miss, total one.
C27_Witness ==
    /\ stats = [hits |-> 0, misses |-> 1, total |-> 1]
    /\ single[1].pc = "llm"
    /\ single[1].reachable
    /\ single[2].pc = "llm"
    /\ ~single[2].reachable


(***************************************************************************)
(* Verdicts and escalation (checked under SpecPure)                        *)
(***************************************************************************)

\* C28: a verdict returned without an attempt at the LLM stage has impact
\* Positive or Negative, a confidence within [60,75] and low_confidence =
\* FALSE; every Neutral draft has a confidence of 40..45 and is escalated;
\* and low_confidence = TRUE occurs only on a verdict produced after an
\* escalation whose LLM stage was unavailable, with a final confidence
\* below 60.
C28_UnescalatedVerdictsAreConfident ==
    /\ (probe.kind = "score" /\ probe.stage = "output") =>
        /\ ~probe.needs_llm =>
            /\ probe.verdict.impact \in {"Positive", "Negative"}
            /\ probe.verdict.confidence \in 60..75
            /\ ~probe.verdict.low_confidence
        /\ probe.keyword_result.impact = "Neutral" =>
            /\ probe.keyword_result.confidence \in 40..45
            /\ probe.needs_llm
        /\ probe.verdict.low_confidence =>
            /\ probe.needs_llm
            /\ probe.verdict.confidence < 60
    /\ (probe.kind = "llm" /\ probe.stage = "output") =>
        /\ ~Phase1[probe.news].needs_llm =>
            /\ KeywordVerdict(probe.news).impact \in {"Positive", "Negative"}
            /\ KeywordVerdict(probe.news).confidence \in 60..75
            /\ ~KeywordVerdict(probe.news).low_confidence
        /\ probe.verdict.low_confidence =>
            /\ Phase1[probe.news].needs_llm
            /\ probe.llm_result = None
            /\ probe.verdict.confidence < 60

\* Scores 30 to 0: the draft Positive/60 is not escalated and the verdict
\* is Positive with confidence 60, not flagged.
C28_Witness ==
    /\ probe.kind = "score"
    /\ probe.stage = "output"
    /\ probe.positive_score = 30
    /\ probe.negative_score = 0
    /\ ~probe.needs_llm
    /\ probe.verdict.impact = "Positive"
    /\ probe.verdict.confidence = 60
    /\ ~probe.verdict.low_confidence


\* C29: in every keyword-path verdict the confidence label written into
\* the summary (High above 75, Medium above 50, else Low) is the label of
\* the confidence the verdict returns.
C29_SummaryLabelMatchesConfidence ==
    /\ (probe.kind = "score" /\ probe.stage = "output") =>
        probe.verdict.summary.confidence = ConfidenceText(probe.verdict.confidence)
    /\ (probe.kind = "llm" /\ probe.stage = "output" /\ probe.llm_result = None) =>
        probe.verdict.summary.confidence = ConfidenceText(probe.verdict.confidence)

\* Scores 40 to 0: the draft has confidence 80, the summary says High, and
\* the verdict returns 75, which is Medium.
C29_Witness ==
    /\ probe.kind = "score"
    /\ probe.stage = "output"
    /\ probe.positive_score = 40
    /\ probe.negative_score = 0
    /\ probe.keyword_result.confidence = 80
    /\ probe.verdict.confidence = 75
    /\ probe.verdict.summary.confidence = "High"
    /\ ConfidenceText(probe.verdict.confidence) = "Medium"

(***************************************************************************)
(* mcp_news_main.py: verify_token and the endpoints that depend on it      *)
(***************************************************************************)

\* A text is modelled by its pieces, the value of text.split(" "); the empty
\* sequence is the absent value (None) or the empty text, which the code
\* tests alike ("not required_token", "not authorization").
NoText == <<>>

\* Values of the API_TOKEN environment variable: not set, a token, and a
\* token that holds a space.
ApiTokens == {NoText, <<"secret">>, <<"my", "token">>}

\* Values of the Authorization header: none, the bare token, another
\* scheme, the scheme in lower case, a wrong token, the token, the token
\* after two spaces, the token followed by more text, and the token that
\* holds a space.
Authorizations ==
    {NoText, <<"secret">>, <<"Basic", "secret">>, <<"bearer", "secret">>,
     <<"Bearer", "wrong">>, <<"Bearer", "secret">>, <<"Bearer", "", "secret">>,
     <<"Bearer", "secret", "extra">>, <<"Bearer", "my", "token">>}

Endpoints == {"mcp", "analyze", "webhook_test"}

\* authorization.startswith("Bearer "), line 102.
StartsWithBearer(authorization) ==
    /\ Len(authorization) >= 2
    /\ authorization[1] = "Bearer"

Unauthorized == Raised("HTTPException401")

\* Lines 93-109. The token compared is the second piece of the header,
\* authorization.split(" ")[1].
verify_token(required_token, authorization) ==
    IF required_token = NoText
    THEN Returned(TRUE)
    ELSE IF authorization = NoText
    THEN Unauthorized
    ELSE IF ~StartsWithBearer(authorization)
    THEN Unauthorized
    ELSE LET token == authorization[2]
         IN  IF <<token>> # required_token
             THEN Unauthorized
             ELSE Returned(TRUE)

\* A request on its way to one of the three endpoints.
Arrivals ==
    {[kind |-> "request", stage |-> "arrived", authorization |-> authorization,
      required_token |-> required_token, endpoint |-> endpoint] :
        endpoint \in Endpoints, required_token \in ApiTokens,
        authorization \in Authorizations}

InitAuth ==
    /\ openai_key \in BOOLEAN
    /\ webhook_enabled \in BOOLEAN
    /\ store_up \in BOOLEAN
    /\ hash_seed = "seed_a"
    /\ probe \in Arrivals
    /\ Constructed

\* Depends(verify_token), lines 129, 240 and 259: the dependency is resolved
\* before the endpoint's function is called, and its HTTPException is the
\* response. Requests are served once the lifespan has started.
VerifyToken ==
    /\ phase = "running"
    /\ probe.kind = "request"
    /\ probe.stage = "arrived"
    /\ probe' = [probe EXCEPT !.stage =
            IF IsException(verify_token(probe.required_token, probe.authorization))
            THEN "rejected"
            ELSE "admitted"]
    /\ UNCHANGED unprobed

Admitted(endpoint) ==
    /\ probe.kind = "request"
    /\ probe.stage = "admitted"
    /\ probe.endpoint = endpoint
    /\ ops = 0

\* Lines 264-270: the one result the test delivers; it has no error key.
test_results ==
    <<[impact |-> "Positive", confidence |-> 95, affected_coins |-> {"BTC"},
       lang |-> "en", error |-> None]>>

\* Lines 258-273 with send_batch_results lines 32-33: the delivery is
\* awaited; a manager that is not enabled returns at once.
WebhookTest ==
    /\ phase = "running"
    /\ ops < MaxOps
    /\ batch.pc = "idle"
    /\ ops' = ops + 1
    /\ batch' =
        IF webhook_enabled
        THEN [IdleBatch EXCEPT !.pc = "webhook", !.entry = "webhook_test",
                               !.results = test_results,
                               !.webhook_attempts = 1,
                               !.summary_stats = _generate_summary_stats(test_results)]
        ELSE [IdleBatch EXCEPT !.pc = "done", !.entry = "webhook_test",
                               !.results = test_results, !.status = "ok"]
    /\ UNCHANGED <<config, phase, analyzer, redis, store_up, cache, rate, stats, completed, single, rl>>

AdmittedMcpSingle ==
    /\ Admitted("mcp")
    /\ \E s \in Singles, news \in SingleNews : McpSingle(s, news)

AdmittedMcpBatch ==
    /\ Admitted("mcp")
    /\ McpBatch

AdmittedRestAnalyze ==
    /\ Admitted("analyze")
    /\ RestAnalyze

AdmittedWebhookTest ==
    /\ Admitted("webhook_test")
    /\ WebhookTest

\* One request from its arrival to the start of its work, and the delivery
\* of the webhook test.
NextAuth ==
    \/ Lifespan
    \/ VerifyToken
    \/ AdmittedMcpSingle
    \/ AdmittedMcpBatch
    \/ AdmittedRestAnalyze
    \/ AdmittedWebhookTest
    \/ WebhookReturns

SpecAuth == InitAuth /\ [][NextAuth]_vars

(***************************************************************************)
(* C30                                                                     *)
(***************************************************************************)

\* No analysis, cache access, LLM call or webhook delivery has begun.
NothingStarted ==
    /\ \A s \in Singles : single[s] = IdleSingle
    /\ batch = IdleBatch
    /\ stats = [hits |-> 0, misses |-> 0, total |-> 0]
    /\ \A k \in CacheKeys : cache[k] = Nil
    /\ ops = 0

\* The header of the form 'Bearer <API_TOKEN>'.
BearerHeader(required_token) == <<"Bearer">> \o required_token

\* C30: when API_TOKEN is configured, a request to /mcp, /analyze or
\* /webhook-test whose Authorization header is not 'Bearer <API_TOKEN>' is
\* never admitted and no analysis, cache access, LLM call or webhook
\* delivery happens for it; when API_TOKEN is not configured no request is
\* rejected.
C30_OnlyBearerTokenIsAdmitted ==
    probe.kind = "request" =>
        /\ (probe.required_token # NoText
            /\ probe.authorization # BearerHeader(probe.required_token)) =>
                (probe.stage # "admitted" /\ NothingStarted)
        /\ probe.stage = "rejected" => NothingStarted
        /\ probe.required_token = NoText => probe.stage # "rejected"

\* The header "Bearer secret extra" is admitted under API_TOKEN=secret and
\* the analysis of an item has begun.
C30_Witness ==
    /\ probe.kind = "request"
    /\ probe.required_token = <<"secret">>
    /\ probe.authorization = <<"Bearer", "secret", "extra">>
    /\ probe.stage = "admitted"
    /\ probe.endpoint = "mcp"
    /\ single[1].pc = "get"

=============================================================================
